---- MODULE Spec2Model ----
(***************************************************************************)
(* Model of certgen: pkg/config (CertificateConfig and the two option      *)
(* records), pkg/certificate (Generator), pkg/encoding.                    *)
(*                                                                         *)
(* Library calls are modelled by what they do to the values the program    *)
(* looks at afterwards:                                                    *)
(*   - math/big integers and int64 durations are little-endian sequences   *)
(*     of base-256 digits, so that 2^128 and 64-bit nanosecond counts are  *)
(*     computed exactly;                                                   *)
(*   - rsa.GenerateKey returns a key that no earlier call returned, with   *)
(*     a modulus of exactly the requested bit length;                      *)
(*   - a signature is the pair (signing key, signed content);              *)
(*   - crypto/rand.Reader does not fail; what it returns is an input.      *)
(***************************************************************************)
EXTENDS Integers, Sequences, FiniteSets, TLC

\* ------------------------------------------------------------------------
\* Bounds of the model
\* ------------------------------------------------------------------------
MaxKeys == 2

\* ------------------------------------------------------------------------
\* Arbitrary-precision naturals (math/big.Int, and the exact value of an
\* int64 product): little-endian base-256 digits, no leading zero digit.
\* ------------------------------------------------------------------------
Base == 256

RECURSIVE Norm(_)
Norm(a) ==
    IF a = <<>> THEN <<>>
    ELSE IF a[Len(a)] = 0 THEN Norm(SubSeq(a, 1, Len(a) - 1))
    ELSE a

RECURSIVE FromInt(_)
FromInt(n) ==
    IF n = 0 THEN <<>> ELSE <<n % Base>> \o FromInt(n \div Base)

RECURSIVE ToInt(_)
ToInt(a) ==
    IF a = <<>> THEN 0 ELSE a[1] + Base * ToInt(Tail(a))

RECURSIVE Pow2(_)
Pow2(n) == IF n = 0 THEN 1 ELSE 2 * Pow2(n - 1)

RECURSIVE Zeros(_)
Zeros(n) == IF n = 0 THEN <<>> ELSE <<0>> \o Zeros(n - 1)

RECURSIVE AddC(_, _, _)
AddC(a, b, c) ==
    IF a = <<>> /\ b = <<>> THEN (IF c = 0 THEN <<>> ELSE <<c>>)
    ELSE LET x == IF a = <<>> THEN 0 ELSE a[1]
             y == IF b = <<>> THEN 0 ELSE b[1]
             t == x + y + c
         IN  <<t % Base>> \o AddC(IF a = <<>> THEN <<>> ELSE Tail(a),
                                   IF b = <<>> THEN <<>> ELSE Tail(b),
                                   t \div Base)

BigAdd(a, b) == Norm(AddC(a, b, 0))

RECURSIVE MulSmallC(_, _, _)
MulSmallC(a, k, c) ==
    IF a = <<>> THEN FromInt(c)
    ELSE LET t == a[1] * k + c
         IN  <<t % Base>> \o MulSmallC(Tail(a), k, t \div Base)

\* a * k for a machine-sized k
MulSmall(a, k) == Norm(MulSmallC(a, k, 0))

RECURSIVE BigMul(_, _)
BigMul(a, b) ==
    IF a = <<>> THEN <<>>
    ELSE BigAdd(MulSmall(b, a[1]),
                LET hi == BigMul(Tail(a), b)
                IN  IF hi = <<>> THEN <<>> ELSE <<0>> \o hi)

\* quotient and remainder of a by a machine-sized k
RECURSIVE DivRem(_, _)
DivRem(a, k) ==
    IF a = <<>> THEN [q |-> <<>>, r |-> 0]
    ELSE LET hi == DivRem(Tail(a), k)
             t  == hi.r * Base + a[1]
         IN  [q |-> Norm(<<t \div k>> \o hi.q), r |-> t % k]

RECURSIVE BigLess(_, _)
BigLess(a, b) ==
    IF Len(a) # Len(b) THEN Len(a) < Len(b)
    ELSE IF a = <<>> THEN FALSE
    ELSE IF a[Len(a)] # b[Len(b)] THEN a[Len(a)] < b[Len(b)]
    ELSE BigLess(SubSeq(a, 1, Len(a) - 1), SubSeq(b, 1, Len(b) - 1))

BigZero == <<>>
BigOne == <<1>>

\* new(big.Int).Lsh(x, n)
Lsh(x, n) ==
    IF x = <<>> THEN <<>>
    ELSE Zeros(n \div 8) \o MulSmall(x, Pow2(n % 8))

\* ------------------------------------------------------------------------
\* int64 (time.Duration): two's complement in 8 digits
\* ------------------------------------------------------------------------
Int64Bytes == 8

\* the low 64 bits of a natural
Wrap64(a) == Norm(SubSeq(a, 1, IF Len(a) < Int64Bytes THEN Len(a) ELSE Int64Bytes))

IsNeg64(a) == Len(a) = Int64Bytes /\ a[Int64Bytes] >= 128

\* two's complement negation
Neg64(a) ==
    LET padded == a \o Zeros(Int64Bytes - Len(a))
        compl  == [i \in 1..Int64Bytes |-> 255 - padded[i]]
    IN  Wrap64(AddC(compl, BigOne, 0))

\* conversion int -> int64
Int64Of(n) == IF n >= 0 THEN FromInt(n) ELSE Neg64(FromInt(0 - n))

Mul64(a, b) == Wrap64(BigMul(a, b))

\* time.Hour, in nanoseconds
Hour == MulSmall(MulSmall(MulSmall(FromInt(3600), 1000), 1000), 1000)

\* ------------------------------------------------------------------------
\* time.Time: day number, second of the day, nanosecond of the second
\* ------------------------------------------------------------------------
SecondsPerDay == 86400
NanosPerSecond == 1000000000

\* a natural number of nanoseconds as days, seconds and nanoseconds
SplitNanos(m) ==
    LET d1 == DivRem(m, 1000)
        d2 == DivRem(d1.q, 1000)
        d3 == DivRem(d2.q, 1000)
        d4 == DivRem(d3.q, SecondsPerDay)
    IN  [day  |-> ToInt(d4.q),
         sec  |-> d4.r,
         nsec |-> d1.r + 1000 * d2.r + 1000000 * d3.r]

\* time.Time.Add(d), d an int64 count of nanoseconds
TimeAdd(t, d) ==
    IF ~IsNeg64(d)
    THEN LET s  == SplitNanos(d)
             n  == t.nsec + s.nsec
             sc == t.sec + s.sec + (n \div NanosPerSecond)
         IN  [day  |-> t.day + s.day + (sc \div SecondsPerDay),
              sec  |-> sc % SecondsPerDay,
              nsec |-> n % NanosPerSecond]
    ELSE LET s  == SplitNanos(Neg64(d))
             n  == t.nsec - s.nsec
             bn == IF n < 0 THEN 1 ELSE 0
             sc == t.sec - s.sec - bn
             bs == IF sc < 0 THEN 1 ELSE 0
         IN  [day  |-> t.day - s.day - bs,
              sec  |-> sc + bs * SecondsPerDay,
              nsec |-> n + bn * NanosPerSecond]

\* a time as written into a certificate and read back: whole seconds
TruncSecond(t) == [day |-> t.day, sec |-> t.sec, nsec |-> 0]

\* ------------------------------------------------------------------------
\* Values
\* ------------------------------------------------------------------------
\* a nil pointer
NIL == [nil |-> TRUE]

\* strings the program inspects are byte sequences
MaxASCII == 127
DomainExample == <<97, 46, 98>>
DomainNoDot == <<97>>
DomainEmpty == <<>>
DomainNonASCII == <<195, 169, 46, 98>>
Domains == {DomainExample, DomainNoDot, DomainEmpty, DomainNonASCII}

ValidityDaysValues == {1, 90, 36500, 106752}
KeySizeValues == {0 - 1024, 0, 512, 1023, 1024, 2048}

\* config.NewCertificateConfig, with the fields a caller overrides
NewCertificateConfig(domain, days, keySize) ==
    [Domain             |-> domain,
     Country            |-> "SG",
     State              |-> "Singapore",
     Locality           |-> "Singapore",
     Organization       |-> "Erfi Corp",
     OrganizationalUnit |-> "Erfi Proxy",
     ValidityDays       |-> days,
     KeySize            |-> keySize,
     PKCS12Password     |-> "yourPKCS12Password"]

\* every domain, every validity and every key size, one varied at a time
Configs ==
    {NewCertificateConfig(d, 90, 2048) : d \in Domains}
    \cup {NewCertificateConfig(DomainExample, v, 2048) :
              v \in ValidityDaysValues}
    \cup {NewCertificateConfig(DomainExample, 90, k) : k \in KeySizeValues}

\* ------------------------------------------------------------------------
\* pkg/config: the option records
\* ------------------------------------------------------------------------
RootCAValidityDays == 1024

OptionsSubject(c) ==
    [Country            |-> c.Country,
     State              |-> c.State,
     Locality           |-> c.Locality,
     Organization       |-> c.Organization,
     OrganizationalUnit |-> c.OrganizationalUnit,
     CommonName         |-> c.Domain]

\* 1024 * 24 * time.Hour is a constant expression, evaluated exactly
RootCAValidFor == BigMul(MulSmall(FromInt(RootCAValidityDays), 24), Hour)

\* mutant: the configured number taken as years
LeafValidForYears(c) ==
    Mul64(Mul64(Mul64(Int64Of(c.ValidityDays), FromInt(365)), FromInt(24)),
          Hour)

\* time.Duration(c.ValidityDays) * 24 * time.Hour, in int64 arithmetic
LeafValidFor(c) == Mul64(Mul64(Int64Of(c.ValidityDays), FromInt(24)), Hour)

\* mutant: the root CA takes the configured validity, like the leaf
GetRootCAOptionsConfigured(c, t) ==
    [Subject     |-> OptionsSubject(c),
     DNSNames    |-> <<c.Domain>>,
     ValidFrom   |-> t,
     ValidFor    |-> LeafValidFor(c),
     IsCA        |-> TRUE,
     KeyUsage    |-> <<"keyCertSign", "cRLSign">>,
     ExtKeyUsage |-> <<>>]

GetRootCAOptions(c, t) ==
    [Subject     |-> OptionsSubject(c),
     DNSNames    |-> <<c.Domain>>,
     ValidFrom   |-> t,
     ValidFor    |-> RootCAValidFor,
     IsCA        |-> TRUE,
     KeyUsage    |-> <<"keyCertSign", "cRLSign">>,
     ExtKeyUsage |-> <<>>]

GetLeafCertOptions(c, t) ==
    [Subject     |-> OptionsSubject(c),
     DNSNames    |-> <<c.Domain>>,
     ValidFrom   |-> t,
     ValidFor    |-> LeafValidFor(c),
     IsCA        |-> FALSE,
     KeyUsage    |-> <<"digitalSignature", "nonRepudiation",
                       "keyEncipherment", "dataEncipherment">>,
     ExtKeyUsage |-> <<"serverAuth", "clientAuth">>]

\* ------------------------------------------------------------------------
\* crypto/rsa, crypto/x509 as the generator uses them
\* ------------------------------------------------------------------------
\* rsa.GenerateKey(rand.Reader, bits): the id-th key of the process
RsaGenerateKey(id, bits) == [id |-> id, bits |-> bits]

\* &key.PublicKey
PublicKeyOf(key) == [pub |-> key.id, bits |-> key.bits]

Sign(priv, content) == [signer |-> priv.id, over |-> content]

VerifySignature(sig, content, pub) ==
    sig.signer = pub.pub /\ sig.over = content

\* pkix.Name.ToRDNSequence: one RDN per listed value, the common name
\* only when it is not empty
ToRDNSequence(name) ==
    [i \in 1..Len(name.Country) |-> <<"C", name.Country[i]>>]
    \o [i \in 1..Len(name.Province) |-> <<"ST", name.Province[i]>>]
    \o [i \in 1..Len(name.Locality) |-> <<"L", name.Locality[i]>>]
    \o [i \in 1..Len(name.Organization) |-> <<"O", name.Organization[i]>>]
    \o [i \in 1..Len(name.OrganizationalUnit) |->
            <<"OU", name.OrganizationalUnit[i]>>]
    \o (IF name.CommonName = <<>> THEN <<>>
        ELSE <<<<"CN", name.CommonName>>>>)

RECURSIVE RDNValues(_, _)
RDNValues(rdns, oid) ==
    IF rdns = <<>> THEN <<>>
    ELSE (IF rdns[1][1] = oid THEN <<rdns[1][2]>> ELSE <<>>)
         \o RDNValues(Tail(rdns), oid)

\* pkix.Name.FillFromRDNSequence
FillFromRDNSequence(rdns) ==
    [Country            |-> RDNValues(rdns, "C"),
     Province           |-> RDNValues(rdns, "ST"),
     Locality           |-> RDNValues(rdns, "L"),
     Organization       |-> RDNValues(rdns, "O"),
     OrganizationalUnit |-> RDNValues(rdns, "OU"),
     CommonName         |-> LET cn == RDNValues(rdns, "CN")
                            IN  IF cn = <<>> THEN <<>> ELSE cn[Len(cn)]]

IsIA5String(s) == \A i \in 1..Len(s) : s[i] <= MaxASCII

\* x509.CreateCertificate(rand.Reader, template, parent, pub, priv)
CreateCertificate(template, parent, pub, priv) ==
    IF \E i \in 1..Len(template.DNSNames) : ~IsIA5String(template.DNSNames[i])
    THEN [der |-> NIL, err |-> "x509: cannot be encoded as an IA5String"]
    ELSE IF parent.PublicKey # NIL /\ PublicKeyOf(priv) # parent.PublicKey
    THEN [der |-> NIL,
          err |-> "x509: provided PrivateKey doesn't match parent's PublicKey"]
    ELSE LET tbs ==
               [SerialNumber     |-> template.SerialNumber,
                Issuer           |-> IF parent.RawSubject # <<>>
                                     THEN parent.RawSubject
                                     ELSE ToRDNSequence(parent.Subject),
                Subject          |-> ToRDNSequence(template.Subject),
                NotBefore        |-> TruncSecond(template.NotBefore),
                NotAfter         |-> TruncSecond(template.NotAfter),
                KeyUsage         |-> template.KeyUsage,
                ExtKeyUsage      |-> template.ExtKeyUsage,
                BasicConstraints |-> IF template.BasicConstraintsValid
                                     THEN <<template.IsCA>> ELSE <<>>,
                DNSNames         |-> template.DNSNames,
                PublicKey        |-> pub]
         IN  [der |-> [tbs |-> tbs, sig |-> Sign(priv, tbs)], err |-> ""]

\* x509.ParseCertificate
ParseCertificate(der) ==
    [Raw                   |-> der,
     SerialNumber          |-> der.tbs.SerialNumber,
     RawIssuer             |-> der.tbs.Issuer,
     Issuer                |-> FillFromRDNSequence(der.tbs.Issuer),
     RawSubject            |-> der.tbs.Subject,
     Subject               |-> FillFromRDNSequence(der.tbs.Subject),
     NotBefore             |-> der.tbs.NotBefore,
     NotAfter              |-> der.tbs.NotAfter,
     KeyUsage              |-> der.tbs.KeyUsage,
     ExtKeyUsage           |-> der.tbs.ExtKeyUsage,
     BasicConstraintsValid |-> der.tbs.BasicConstraints # <<>>,
     IsCA                  |-> der.tbs.BasicConstraints = <<TRUE>>,
     DNSNames              |-> der.tbs.DNSNames,
     PublicKey             |-> der.tbs.PublicKey,
     Signature             |-> der.sig]

\* (*x509.Certificate).CheckSignatureFrom(parent): "" when it verifies
CheckSignatureFrom(c, parent) ==
    IF ~(parent.BasicConstraintsValid /\ parent.IsCA)
    THEN "x509: invalid signature: parent certificate cannot sign this kind of certificate"
    ELSE IF parent.KeyUsage # {} /\ "certSign" \notin parent.KeyUsage
    THEN "x509: invalid signature: parent certificate cannot sign this kind of certificate"
    ELSE IF ~VerifySignature(c.Signature, c.Raw.tbs, parent.PublicKey)
    THEN "crypto/rsa: verification error"
    ELSE ""

\* (*x509.CertificateRequest): x509.CreateCertificateRequest followed by
\* x509.ParseCertificateRequest
CreateCertificateRequest(template, priv) ==
    IF \E i \in 1..Len(template.DNSNames) : ~IsIA5String(template.DNSNames[i])
    THEN [csr |-> NIL, err |-> "x509: cannot be encoded as an IA5String"]
    ELSE LET info == [Subject   |-> ToRDNSequence(template.Subject),
                      DNSNames  |-> template.DNSNames,
                      PublicKey |-> PublicKeyOf(priv)]
         IN  [csr |-> [Raw        |-> [info |-> info, sig |-> Sign(priv, info)],
                       RawSubject |-> info.Subject,
                       Subject    |-> FillFromRDNSequence(info.Subject),
                       DNSNames   |-> info.DNSNames,
                       PublicKey  |-> info.PublicKey,
                       Signature  |-> Sign(priv, info)],
              err |-> ""]

\* (*x509.CertificateRequest).CheckSignature: "" when it verifies
CheckSignature(csr) ==
    IF VerifySignature(csr.Signature, csr.Raw.info, csr.PublicKey)
    THEN "" ELSE "crypto/rsa: verification error"

\* rand.Int(rand.Reader, max): the values a draw can return, of which the
\* model follows a few, the ends of the range among them
BigSamples ==
    {BigZero, [i \in 1..16 |-> 255], Lsh(BigOne, 128)}

RandInt(max) == {v \in BigSamples : BigLess(v, max)}

\* ------------------------------------------------------------------------
\* pkg/certificate: Generator
\* ------------------------------------------------------------------------
MinKeySize == 1024

\* mutant: the floor itself is rejected
GeneratePrivateKeyOffByOne(cfg, id) ==
    IF cfg = NIL
    THEN [key |-> NIL, err |-> "configuration is nil"]
    ELSE IF cfg.KeySize <= MinKeySize
    THEN [key |-> NIL, err |-> "key size must be at least 1024 bits"]
    ELSE [key |-> RsaGenerateKey(id, cfg.KeySize), err |-> ""]

\* Generator.GeneratePrivateKey; id names the key rsa.GenerateKey returns
GeneratePrivateKey(cfg, id) ==
    IF cfg = NIL
    THEN [key |-> NIL, err |-> "configuration is nil"]
    ELSE IF cfg.KeySize < MinKeySize
    THEN [key |-> NIL, err |-> "key size must be at least 1024 bits"]
    ELSE [key |-> RsaGenerateKey(id, cfg.KeySize), err |-> ""]

TemplateSubject(opts) ==
    [Country            |-> <<opts.Subject.Country>>,
     Province           |-> <<opts.Subject.State>>,
     Locality           |-> <<opts.Subject.Locality>>,
     Organization       |-> <<opts.Subject.Organization>>,
     OrganizationalUnit |-> <<opts.Subject.OrganizationalUnit>>,
     CommonName         |-> opts.Subject.CommonName]

\* mutant: one bit too many
RootSerialMaxWide == Lsh(BigOne, 129)

\* new(big.Int).Lsh(big.NewInt(1), 128) in GenerateRootCA
RootSerialMax == Lsh(BigOne, 128)

\* new(big.Int).Lsh(big.NewInt(1), 128) in GenerateLeafCertificate
LeafSerialMax == Lsh(BigOne, 128)

\* mutant: the basic constraints are not marked valid
RootCATemplateNoBasicConstraints(opts, serialNumber) ==
    [SerialNumber          |-> serialNumber,
     Subject               |-> TemplateSubject(opts),
     RawSubject            |-> <<>>,
     NotBefore             |-> opts.ValidFrom,
     NotAfter              |-> TimeAdd(opts.ValidFrom, opts.ValidFor),
     KeyUsage              |-> {"certSign", "crlSign"},
     ExtKeyUsage           |-> <<"serverAuth">>,
     BasicConstraintsValid |-> FALSE,
     IsCA                  |-> TRUE,
     DNSNames              |-> opts.DNSNames,
     PublicKey             |-> NIL]

\* mutant: a fixed serial number in place of the drawn one
RootCATemplateFixedSerial(opts, serialNumber) ==
    [SerialNumber          |-> BigOne,
     Subject               |-> TemplateSubject(opts),
     RawSubject            |-> <<>>,
     NotBefore             |-> opts.ValidFrom,
     NotAfter              |-> TimeAdd(opts.ValidFrom, opts.ValidFor),
     KeyUsage              |-> {"certSign", "crlSign"},
     ExtKeyUsage           |-> <<"serverAuth">>,
     BasicConstraintsValid |-> TRUE,
     IsCA                  |-> TRUE,
     DNSNames              |-> opts.DNSNames,
     PublicKey             |-> NIL]

\* the template GenerateRootCA builds
RootCATemplate(opts, serialNumber) ==
    [SerialNumber          |-> serialNumber,
     Subject               |-> TemplateSubject(opts),
     RawSubject            |-> <<>>,
     NotBefore             |-> opts.ValidFrom,
     NotAfter              |-> TimeAdd(opts.ValidFrom, opts.ValidFor),
     KeyUsage              |-> {"certSign", "crlSign"},
     ExtKeyUsage           |-> <<"serverAuth">>,
     BasicConstraintsValid |-> TRUE,
     IsCA                  |-> TRUE,
     DNSNames              |-> opts.DNSNames,
     PublicKey             |-> NIL]

\* x509 key usage bits named by the strings of the options record
KeyUsageOfName(name) ==
    CASE name = "digitalSignature" -> "digitalSignature"
      [] name = "nonRepudiation"   -> "contentCommitment"
      [] name = "keyEncipherment"  -> "keyEncipherment"
      [] name = "dataEncipherment" -> "dataEncipherment"
      [] name = "keyCertSign"      -> "certSign"
      [] name = "cRLSign"          -> "crlSign"

\* mutant: the usages are taken from the options record
LeafTemplateOptionsUsage(opts, serialNumber) ==
    [SerialNumber          |-> serialNumber,
     Subject               |-> TemplateSubject(opts),
     RawSubject            |-> <<>>,
     NotBefore             |-> opts.ValidFrom,
     NotAfter              |-> TimeAdd(opts.ValidFrom, opts.ValidFor),
     KeyUsage              |-> {KeyUsageOfName(opts.KeyUsage[i]) :
                                   i \in 1..Len(opts.KeyUsage)},
     ExtKeyUsage           |-> opts.ExtKeyUsage,
     BasicConstraintsValid |-> FALSE,
     IsCA                  |-> FALSE,
     DNSNames              |-> opts.DNSNames,
     PublicKey             |-> NIL]

\* the template GenerateLeafCertificate builds
LeafTemplate(opts, serialNumber) ==
    [SerialNumber          |-> serialNumber,
     Subject               |-> TemplateSubject(opts),
     RawSubject            |-> <<>>,
     NotBefore             |-> opts.ValidFrom,
     NotAfter              |-> TimeAdd(opts.ValidFrom, opts.ValidFor),
     KeyUsage              |-> {"digitalSignature", "keyEncipherment"},
     ExtKeyUsage           |-> <<"serverAuth", "clientAuth">>,
     BasicConstraintsValid |-> FALSE,
     IsCA                  |-> FALSE,
     DNSNames              |-> opts.DNSNames,
     PublicKey             |-> NIL]

\* mutant: the certificate carries the public half of another key
RootCASubjectKeyOther(key) == [pub |-> key.id + 1, bits |-> key.bits]

\* the key the root CA is signed with, and the public key it carries
RootCASigningKey(key) == key
RootCASubjectKey(key) == PublicKeyOf(key)

\* mutant: the leaf carries the public half of the CA key
LeafSubjectKeyOfCA(key, caKey) == PublicKeyOf(caKey)

\* the key the leaf is signed with, and the public key it carries
LeafSigningKey(key, caKey) == caKey
LeafSubjectKey(key, caKey) == PublicKeyOf(key)

\* what a call leaves behind: its results, whether it panicked, the key it
\* generated and whether it drew a serial number
Outcome(cert, key, csr, err, panic, newKey, drew) ==
    [cert |-> cert, key |-> key, csr |-> csr, err |-> err,
     panic |-> panic, newKey |-> newKey, drew |-> drew]

\* Generator.GenerateRootCA; t is time.Now() when the options are built,
\* serialNumber the value rand.Int returns
GenerateRootCA(cfg, id, t, serialNumber) ==
    LET k == GeneratePrivateKey(cfg, id)
    IN  IF k.err # ""
        THEN Outcome(NIL, NIL, NIL, k.err, FALSE, NIL, FALSE)
        ELSE
        LET opts     == GetRootCAOptions(cfg, t)
            template == RootCATemplate(opts, serialNumber)
            created  == CreateCertificate(template, template,
                                          RootCASubjectKey(k.key),
                                          RootCASigningKey(k.key))
        IN  IF created.err # ""
            THEN Outcome(NIL, NIL, NIL,
                         "failed to create root CA certificate",
                         FALSE, k.key, TRUE)
            ELSE Outcome(ParseCertificate(created.der), k.key, NIL, "",
                         FALSE, k.key, TRUE)

\* Generator.GenerateLeafCertificate(caCert, caKey)
GenerateLeafCertificate(cfg, id, t, serialNumber, caCert, caKey) ==
    LET k == GeneratePrivateKey(cfg, id)
    IN  IF k.err # ""
        THEN Outcome(NIL, NIL, NIL, k.err, FALSE, NIL, FALSE)
        ELSE IF caCert = NIL \/ caKey = NIL
        \* x509.CreateCertificate dereferences both
        THEN Outcome(NIL, NIL, NIL, "", TRUE, k.key, TRUE)
        ELSE
        LET opts     == GetLeafCertOptions(cfg, t)
            template == LeafTemplate(opts, serialNumber)
            created  == CreateCertificate(template, caCert,
                                          LeafSubjectKey(k.key, caKey),
                                          LeafSigningKey(k.key, caKey))
        IN  IF created.err # ""
            THEN Outcome(NIL, NIL, NIL,
                         "failed to create leaf certificate",
                         FALSE, k.key, TRUE)
            ELSE Outcome(ParseCertificate(created.der), k.key, NIL, "",
                         FALSE, k.key, TRUE)

\* mutant: the request carries no DNS names
GenerateCertificateRequestNoDNSNames(cfg, t, key) ==
    IF cfg = NIL
    THEN Outcome(NIL, NIL, NIL, "", TRUE, NIL, FALSE)
    ELSE IF key = NIL
    THEN Outcome(NIL, NIL, NIL, "", TRUE, NIL, FALSE)
    ELSE
    LET opts     == GetLeafCertOptions(cfg, t)
        template == [Subject  |-> TemplateSubject(opts),
                     DNSNames |-> <<>>]
        created  == CreateCertificateRequest(template, key)
    IN  IF created.err # ""
        THEN Outcome(NIL, NIL, NIL, "failed to create certificate request",
                     FALSE, NIL, FALSE)
        ELSE Outcome(NIL, NIL, created.csr, "", FALSE, NIL, FALSE)

\* Generator.GenerateCertificateRequest(key)
GenerateCertificateRequest(cfg, t, key) ==
    IF cfg = NIL
    \* g.config.GetLeafCertOptions() reads the fields of a nil pointer
    THEN Outcome(NIL, NIL, NIL, "", TRUE, NIL, FALSE)
    ELSE IF key = NIL
    \* x509.CreateCertificateRequest dereferences the key
    THEN Outcome(NIL, NIL, NIL, "", TRUE, NIL, FALSE)
    ELSE
    LET opts     == GetLeafCertOptions(cfg, t)
        template == [Subject  |-> TemplateSubject(opts),
                     DNSNames |-> opts.DNSNames]
        created  == CreateCertificateRequest(template, key)
    IN  IF created.err # ""
        THEN Outcome(NIL, NIL, NIL, "failed to create certificate request",
                     FALSE, NIL, FALSE)
        ELSE Outcome(NIL, NIL, created.csr, "", FALSE, NIL, FALSE)

\* ------------------------------------------------------------------------
\* encoding/asn1: the DER octets of the values x509 marshals and parses.
\* A value is tag, length, content; lengths are in the shortest form.
\* ------------------------------------------------------------------------
Tag ==
    [Boolean |-> 1, Integer |-> 2, BitString |-> 3, OctetString |-> 4,
     Null |-> 5, OID |-> 6, UTF8String |-> 12, GeneralizedTime |-> 24,
     Sequence |-> 48, Set |-> 49, DNSName |-> 130, Version |-> 160,
     Extensions |-> 163]

\* v under the name F gives it
Let(v, F(_)) == F(v)

Reverse(s) == [i \in 1..Len(s) |-> s[Len(s) + 1 - i]]

RECURSIVE Flatten(_)
Flatten(ss) == IF ss = <<>> THEN <<>> ELSE ss[1] \o Flatten(Tail(ss))

Tlv(tag, content) ==
    LET n == Len(content)
    IN  <<tag>>
        \o (IF n < 128 THEN <<n>>
            ELSE IF n < 256 THEN <<129, n>>
            ELSE <<130, n \div 256, n % 256>>)
        \o content

\* the first value of b and what follows it
ReadTlv(b) ==
    LET bad == [ok |-> FALSE, tag |-> 0, content |-> <<>>, rest |-> <<>>]
        hdr == IF Len(b) < 2 THEN 0
               ELSE IF b[2] < 128 THEN 2
               ELSE IF b[2] = 129 /\ Len(b) >= 3 /\ b[3] >= 128 THEN 3
               ELSE IF b[2] = 130 /\ Len(b) >= 4 /\ b[3] > 0 THEN 4
               ELSE 0
        n   == IF hdr = 2 THEN b[2]
               ELSE IF hdr = 3 THEN b[3]
               ELSE IF hdr = 4 THEN b[3] * 256 + b[4]
               ELSE 0
    IN  IF hdr = 0 \/ Len(b) < hdr + n THEN bad
        ELSE [ok      |-> TRUE,
              tag     |-> b[1],
              content |-> SubSeq(b, hdr + 1, hdr + n),
              rest    |-> SubSeq(b, hdr + n + 1, Len(b))]

\* the values b is the concatenation of
RECURSIVE ReadAll(_)
ReadAll(b) ==
    IF b = <<>> THEN [ok |-> TRUE, items |-> <<>>]
    ELSE Let(ReadTlv(b), LAMBDA v :
             IF ~v.ok THEN [ok |-> FALSE, items |-> <<>>]
             ELSE Let(ReadAll(v.rest), LAMBDA more :
                      [ok    |-> more.ok,
                       items |-> <<[tag |-> v.tag, content |-> v.content]>>
                                 \o more.items]))

\* the content is values of the given tags, in order
ReadFields(content, tags) ==
    Let(ReadAll(content), LAMBDA kids :
        IF kids.ok /\ Len(kids.items) = Len(tags)
           /\ \A i \in 1..Len(tags) : kids.items[i].tag = tags[i]
        THEN [ok |-> TRUE, items |-> kids.items]
        ELSE [ok |-> FALSE, items |-> <<>>])

\* b is exactly one value of the given tag whose content is values of the
\* given tags, in order
ReadSequence(b, tag, tags) ==
    Let(ReadTlv(b), LAMBDA v :
        IF v.ok /\ v.tag = tag /\ v.rest = <<>>
        THEN ReadFields(v.content, tags)
        ELSE [ok |-> FALSE, items |-> <<>>])

Item(v) == Tlv(v.tag, v.content)

\* mutant: no octet of zeros before a leading octet with its high bit set
DerIntegerUnpadded(a) ==
    Tlv(Tag.Integer, IF a = <<>> THEN <<0>> ELSE Reverse(a))

\* INTEGER: big-endian two's complement in the fewest octets
DerInteger(a) ==
    LET be == Reverse(a)
    IN  Tlv(Tag.Integer,
            IF a = <<>> THEN <<0>>
            ELSE IF be[1] >= 128 THEN <<0>> \o be
            ELSE be)

\* the non-negative integer of an INTEGER's content, when it is one in the
\* fewest octets
ReadInteger(content) ==
    IF content = <<>> \/ content[1] >= 128
       \/ (Len(content) > 1 /\ content[1] = 0 /\ content[2] < 128)
    THEN [ok |-> FALSE, value |-> <<>>]
    ELSE [ok |-> TRUE, value |-> Norm(Reverse(content))]

Oid ==
    [RSAEncryption    |-> <<42, 134, 72, 134, 247, 13, 1, 1, 1>>,
     SHA256WithRSA    |-> <<42, 134, 72, 134, 247, 13, 1, 1, 11>>,
     ECPublicKey      |-> <<42, 134, 72, 206, 61, 2, 1>>,
     KeyUsage         |-> <<85, 29, 15>>,
     SubjectAltName   |-> <<85, 29, 17>>,
     BasicConstraints |-> <<85, 29, 19>>,
     ExtKeyUsage      |-> <<85, 29, 37>>]

AlgorithmIdentifier(oid) ==
    Tlv(Tag.Sequence, Tlv(Tag.OID, oid) \o Tlv(Tag.Null, <<>>))

\* the strings of the configuration, in UTF-8
StringBytes ==
    ("SG" :> <<83, 71>>)
    @@ ("Singapore" :> <<83, 105, 110, 103, 97, 112, 111, 114, 101>>)
    @@ ("Erfi Corp" :> <<69, 114, 102, 105, 32, 67, 111, 114, 112>>)
    @@ ("Erfi Proxy" :> <<69, 114, 102, 105, 32, 80, 114, 111, 120, 121>>)
    @@ ("password" :> <<112, 97, 115, 115, 119, 111, 114, 100>>)
    @@ ("yourPKCS12Password" :>
            <<121, 111, 117, 114, 80, 75, 67, 83, 49, 50, 80, 97, 115, 115,
              119, 111, 114, 100>>)

BytesString(b) ==
    IF \E s \in DOMAIN StringBytes : StringBytes[s] = b
    THEN CHOOSE s \in DOMAIN StringBytes : StringBytes[s] = b
    ELSE b

\* the object identifiers of the attribute types of a name
AttributeOID ==
    [C  |-> <<85, 4, 6>>, ST |-> <<85, 4, 8>>, L  |-> <<85, 4, 7>>,
     O  |-> <<85, 4, 10>>, OU |-> <<85, 4, 11>>, CN |-> <<85, 4, 3>>]

\* pkix.RDNSequence: one single-valued SET per attribute
MarshalName(rdns) ==
    Tlv(Tag.Sequence,
        Flatten([i \in 1..Len(rdns) |->
            Tlv(Tag.Set,
                Tlv(Tag.Sequence,
                    Tlv(Tag.OID, AttributeOID[rdns[i][1]])
                    \o Tlv(Tag.UTF8String,
                           IF rdns[i][1] = "CN" THEN rdns[i][2]
                           ELSE StringBytes[rdns[i][2]])))]))

UnmarshalName(b) ==
    Let(ReadTlv(b), LAMBDA v :
    Let(ReadAll(v.content), LAMBDA sets :
    Let([i \in 1..Len(sets.items) |->
            ReadSequence(sets.items[i].content, Tag.Sequence,
                         <<Tag.OID, Tag.UTF8String>>)], LAMBDA atv :
        IF /\ v.ok /\ v.tag = Tag.Sequence /\ v.rest = <<>> /\ sets.ok
           /\ \A i \in 1..Len(atv) :
                 /\ sets.items[i].tag = Tag.Set
                 /\ atv[i].ok
                 /\ \E t \in DOMAIN AttributeOID :
                       AttributeOID[t] = atv[i].items[1].content
        THEN [ok   |-> TRUE,
              rdns |-> [i \in 1..Len(atv) |->
                  LET t == CHOOSE t \in DOMAIN AttributeOID :
                               AttributeOID[t] = atv[i].items[1].content
                      s == atv[i].items[2].content
                  IN  <<t, IF t = "CN" THEN s ELSE BytesString(s)>>]]
        ELSE [ok |-> FALSE, rdns |-> <<>>])))

\* a time in whole seconds: the day number, offset to be non-negative, in
\* three octets, and the second of the day in three
DayOffset == Pow2(23)

MarshalTime(t) ==
    LET d == t.day + DayOffset
    IN  Tlv(Tag.GeneralizedTime,
            <<d \div 65536, (d \div 256) % 256, d % 256,
              t.sec \div 65536, (t.sec \div 256) % 256, t.sec % 256>>)

UnmarshalTime(c) ==
    IF Len(c) # 6 THEN [ok |-> FALSE, time |-> NIL]
    ELSE LET sec == c[4] * 65536 + c[5] * 256 + c[6]
         IN  [ok   |-> sec < SecondsPerDay,
              time |-> [day  |-> c[1] * 65536 + c[2] * 256 + c[3] - DayOffset,
                        sec  |-> sec,
                        nsec |-> 0]]

\* the bit of each key usage in the first octet of the KeyUsage bit string
KeyUsageBit ==
    [digitalSignature |-> 128, contentCommitment |-> 64,
     keyEncipherment |-> 32, dataEncipherment |-> 16, keyAgreement |-> 8,
     certSign |-> 4, crlSign |-> 2]

RECURSIVE SumBits(_)
SumBits(names) ==
    IF names = {} THEN 0
    ELSE LET n == CHOOSE n \in names : TRUE
         IN  KeyUsageBit[n] + SumBits(names \ {n})

\* the number of unused low bits of a non-zero octet
RECURSIVE TrailingZeros(_)
TrailingZeros(octet) ==
    IF octet % 2 = 1 THEN 0 ELSE 1 + TrailingZeros(octet \div 2)

ExtKeyUsageOID ==
    [serverAuth |-> <<43, 6, 1, 5, 5, 7, 3, 1>>,
     clientAuth |-> <<43, 6, 1, 5, 5, 7, 3, 2>>]

Extension(oid, value) ==
    Tlv(Tag.Sequence, Tlv(Tag.OID, oid) \o Tlv(Tag.OctetString, value))

\* the extensions x509.CreateCertificate builds from the template fields
MarshalExtensions(tbs) ==
    (IF tbs.KeyUsage = {} THEN <<>>
     ELSE LET octet == SumBits(tbs.KeyUsage)
          IN  Extension(Oid.KeyUsage,
                        Tlv(Tag.BitString, <<TrailingZeros(octet), octet>>)))
    \o (IF tbs.ExtKeyUsage = <<>> THEN <<>>
        ELSE Extension(Oid.ExtKeyUsage,
                 Tlv(Tag.Sequence,
                     Flatten([i \in 1..Len(tbs.ExtKeyUsage) |->
                         Tlv(Tag.OID, ExtKeyUsageOID[tbs.ExtKeyUsage[i]])]))))
    \o (IF tbs.BasicConstraints = <<>> THEN <<>>
        ELSE Extension(Oid.BasicConstraints,
                 Tlv(Tag.Sequence,
                     IF tbs.BasicConstraints[1]
                     THEN Tlv(Tag.Boolean, <<255>>) ELSE <<>>)))
    \o (IF tbs.DNSNames = <<>> THEN <<>>
        ELSE Extension(Oid.SubjectAltName,
                 Tlv(Tag.Sequence,
                     Flatten([i \in 1..Len(tbs.DNSNames) |->
                         Tlv(Tag.DNSName, tbs.DNSNames[i])]))))

MarshalPublicKey(pub) ==
    Tlv(Tag.Sequence,
        AlgorithmIdentifier(Oid.RSAEncryption)
        \o Tlv(Tag.BitString,
               <<0>> \o Tlv(Tag.Sequence,
                            DerInteger(FromInt(pub.pub))
                            \o DerInteger(FromInt(pub.bits)))))

MarshalTBSCertificate(tbs) ==
    Tlv(Tag.Sequence,
        Tlv(Tag.Version, DerInteger(FromInt(2)))
        \o DerInteger(tbs.SerialNumber)
        \o AlgorithmIdentifier(Oid.SHA256WithRSA)
        \o MarshalName(tbs.Issuer)
        \o Tlv(Tag.Sequence,
               MarshalTime(tbs.NotBefore) \o MarshalTime(tbs.NotAfter))
        \o MarshalName(tbs.Subject)
        \o MarshalPublicKey(tbs.PublicKey)
        \o Tlv(Tag.Extensions, Tlv(Tag.Sequence, MarshalExtensions(tbs))))

\* the digest a signature is computed over: two running sums of the
\* octets, modulo 255
\* the sum over i in lo..hi of weight(i) * b[i], modulo 255, where
\* the weight is 1 (plain) or the number of octets from i to the end
RECURSIVE DigestSum(_, _, _, _)
DigestSum(b, lo, hi, weighted) ==
    IF lo > hi THEN 0
    ELSE IF lo = hi
    THEN ((IF weighted THEN Len(b) - lo + 1 ELSE 1) * b[lo]) % 255
    ELSE LET mid == (lo + hi) \div 2
         IN  (DigestSum(b, lo, mid, weighted)
              + DigestSum(b, mid + 1, hi, weighted)) % 255

Digest(b) ==
    <<DigestSum(b, 1, Len(b), FALSE), DigestSum(b, 1, Len(b), TRUE)>>

\* the octets of a signature: the signing key and the digest of the signed
\* octets
SignatureBytes(sig, signedBytes) == <<sig.signer>> \o Digest(signedBytes)

\* the octets of a certificate: cert.Raw
MarshalCertificate(der) ==
    LET tbsBytes == MarshalTBSCertificate(der.tbs)
    IN  Tlv(Tag.Sequence,
            tbsBytes
            \o AlgorithmIdentifier(Oid.SHA256WithRSA)
            \o Tlv(Tag.BitString,
                   <<0>> \o SignatureBytes(der.sig,
                                           MarshalTBSCertificate(der.sig.over))))

UnmarshalPublicKey(b) ==
    LET bad == [ok |-> FALSE, pub |-> NIL]
    IN  Let(ReadSequence(b, Tag.Sequence, <<Tag.Sequence, Tag.BitString>>),
            LAMBDA spki :
            IF ~spki.ok THEN bad
            ELSE IF Item(spki.items[1])
                    # AlgorithmIdentifier(Oid.RSAEncryption)
            \* a key of an algorithm x509 does not know is left out
            THEN [ok |-> TRUE, pub |-> NIL]
            ELSE IF spki.items[2].content = <<>>
                    \/ spki.items[2].content[1] # 0
            THEN bad
            ELSE Let(ReadSequence(Tail(spki.items[2].content), Tag.Sequence,
                                  <<Tag.Integer, Tag.Integer>>), LAMBDA rsa :
                 IF ~rsa.ok THEN bad
                 ELSE Let(ReadInteger(rsa.items[1].content), LAMBDA n :
                      Let(ReadInteger(rsa.items[2].content), LAMBDA e :
                          IF n.ok /\ e.ok
                          THEN [ok  |-> TRUE,
                                pub |-> [pub  |-> ToInt(n.value),
                                         bits |-> ToInt(e.value)]]
                          ELSE bad))))

HasExtension(exts, oid) ==
    \E i \in 1..Len(exts) : exts[i].items[1].content = oid

\* the value of an extension, nothing when it is absent
ExtensionValue(exts, oid) ==
    IF HasExtension(exts, oid)
    THEN exts[CHOOSE i \in 1..Len(exts) : exts[i].items[1].content = oid]
             .items[2].content
    ELSE <<>>

\* the extensions of a certificate, as the fields x509.ParseCertificate
\* fills from them; an extension it does not know is skipped
UnmarshalExtensions(content) ==
    LET bad == [ok |-> FALSE]
        ekuOf(item) == \E n \in DOMAIN ExtKeyUsageOID :
                           item.tag = Tag.OID /\ item.content = ExtKeyUsageOID[n]
        isDNS(item) == item.tag = Tag.DNSName
    IN  Let(ReadTlv(content), LAMBDA list :
        Let(ReadAll(list.content), LAMBDA each :
        \* exts: the extensions, each the values of its identifier and
        \* its octet string
        Let([i \in 1..Len(each.items) |->
                ReadFields(each.items[i].content,
                           <<Tag.OID, Tag.OctetString>>)], LAMBDA exts :
        IF ~(/\ list.ok /\ list.tag = Tag.Sequence /\ list.rest = <<>>
             /\ each.ok
             /\ \A i \in 1..Len(exts) :
                   each.items[i].tag = Tag.Sequence /\ exts[i].ok)
        THEN bad
        ELSE
        Let(ReadTlv(ExtensionValue(exts, Oid.KeyUsage)), LAMBDA ku :
        Let(ReadTlv(ExtensionValue(exts, Oid.ExtKeyUsage)), LAMBDA eku :
        Let(ReadAll(eku.content), LAMBDA ekus :
        Let(ReadTlv(ExtensionValue(exts, Oid.BasicConstraints)), LAMBDA bc :
        Let(ReadAll(bc.content), LAMBDA bcs :
        Let(ReadTlv(ExtensionValue(exts, Oid.SubjectAltName)), LAMBDA san :
        Let(ReadAll(san.content), LAMBDA names :
        IF ~(/\ HasExtension(exts, Oid.KeyUsage) =>
                    /\ ku.ok /\ ku.tag = Tag.BitString
                    /\ Len(ku.content) = 2
             /\ HasExtension(exts, Oid.ExtKeyUsage) =>
                    eku.ok /\ eku.tag = Tag.Sequence /\ ekus.ok
             /\ HasExtension(exts, Oid.BasicConstraints) =>
                    bc.ok /\ bc.tag = Tag.Sequence /\ bcs.ok
             /\ HasExtension(exts, Oid.SubjectAltName) =>
                    /\ san.ok /\ san.tag = Tag.Sequence /\ names.ok
                    /\ \A i \in 1..Len(names.items) :
                          isDNS(names.items[i]) =>
                              IsIA5String(names.items[i].content))
        THEN bad
        ELSE [ok |-> TRUE,
              KeyUsage |->
                  IF HasExtension(exts, Oid.KeyUsage)
                  THEN {n \in DOMAIN KeyUsageBit :
                           (ku.content[2] \div KeyUsageBit[n]) % 2 = 1}
                  ELSE {},
              ExtKeyUsage |->
                  IF HasExtension(exts, Oid.ExtKeyUsage)
                  THEN Let(SelectSeq(ekus.items, ekuOf), LAMBDA known :
                           [i \in 1..Len(known) |->
                               CHOOSE n \in DOMAIN ExtKeyUsageOID :
                                   known[i].content = ExtKeyUsageOID[n]])
                  ELSE <<>>,
              BasicConstraints |->
                  IF HasExtension(exts, Oid.BasicConstraints)
                  THEN <<bcs.items # <<>>
                         /\ bcs.items[1].tag = Tag.Boolean
                         /\ bcs.items[1].content = <<255>>>>
                  ELSE <<>>,
              DNSNames |->
                  IF HasExtension(exts, Oid.SubjectAltName)
                  THEN Let(SelectSeq(names.items, isDNS), LAMBDA dns :
                           [i \in 1..Len(dns) |-> dns[i].content])
                  ELSE <<>>]))))))))))

\* asn1.Unmarshal of a certificate: the value the octets are the DER of
UnmarshalCertificate(b) ==
    LET bad == [ok |-> FALSE, der |-> NIL]
    IN  Let(ReadSequence(b, Tag.Sequence,
                         <<Tag.Sequence, Tag.Sequence, Tag.BitString>>),
            LAMBDA top :
        IF ~top.ok THEN bad
        ELSE
        Let(ReadFields(top.items[1].content,
                       <<Tag.Version, Tag.Integer, Tag.Sequence,
                         Tag.Sequence, Tag.Sequence, Tag.Sequence,
                         Tag.Sequence, Tag.Extensions>>), LAMBDA f :
        IF ~(/\ f.ok
             /\ f.items[1].content = DerInteger(FromInt(2))
             /\ Item(f.items[3]) = AlgorithmIdentifier(Oid.SHA256WithRSA)
             /\ Item(top.items[2]) = Item(f.items[3])
             /\ Len(top.items[3].content) = 4
             /\ top.items[3].content[1] = 0)
        THEN bad
        ELSE
        Let(ReadFields(f.items[5].content,
                       <<Tag.GeneralizedTime, Tag.GeneralizedTime>>),
            LAMBDA validity :
        IF ~validity.ok THEN bad
        ELSE
        Let(ReadInteger(f.items[2].content), LAMBDA serial :
        Let(UnmarshalName(Item(f.items[4])), LAMBDA issuer :
        Let(UnmarshalTime(validity.items[1].content), LAMBDA from :
        Let(UnmarshalTime(validity.items[2].content), LAMBDA until :
        Let(UnmarshalName(Item(f.items[6])), LAMBDA subject :
        Let(UnmarshalPublicKey(Item(f.items[7])), LAMBDA pub :
        Let(UnmarshalExtensions(f.items[8].content), LAMBDA exts :
        IF ~(/\ serial.ok /\ issuer.ok /\ from.ok /\ until.ok
             /\ subject.ok /\ pub.ok /\ exts.ok)
        THEN bad
        ELSE
        Let([SerialNumber     |-> serial.value,
             Issuer           |-> issuer.rdns,
             Subject          |-> subject.rdns,
             NotBefore        |-> from.time,
             NotAfter         |-> until.time,
             KeyUsage         |-> exts.KeyUsage,
             ExtKeyUsage      |-> exts.ExtKeyUsage,
             BasicConstraints |-> exts.BasicConstraints,
             DNSNames         |-> exts.DNSNames,
             PublicKey        |-> pub.pub], LAMBDA tbs :
        Let(Tail(top.items[3].content), LAMBDA sig :
            [ok  |-> TRUE,
             der |-> [tbs |-> tbs,
                      sig |-> [signer |-> sig[1],
                               \* what the signature was computed over
                               over   |-> IF <<sig[2], sig[3]>>
                                             = Digest(Item(top.items[1]))
                                          THEN tbs
                                          ELSE [digest |->
                                                   <<sig[2], sig[3]>>]]]]
        ))))))))))))

\* x509.ParseCertificate on octets
ParseCertificateDER(b) ==
    Let(UnmarshalCertificate(b), LAMBDA u :
        IF u.ok THEN [cert |-> ParseCertificate(u.der), err |-> ""]
        ELSE [cert |-> NIL, err |-> "x509: malformed certificate"])

\* cert.Raw as octets
RawBytes(cert) == MarshalCertificate(cert.Raw)

\* x509.MarshalPKCS1PrivateKey
MarshalPKCS1PrivateKey(key) ==
    Tlv(Tag.Sequence,
        DerInteger(BigZero)
        \o DerInteger(FromInt(key.id))
        \o DerInteger(FromInt(key.bits)))

\* x509.MarshalPKCS8PrivateKey of an RSA key
MarshalPKCS8PrivateKey(key) ==
    Tlv(Tag.Sequence,
        DerInteger(BigZero)
        \o AlgorithmIdentifier(Oid.RSAEncryption)
        \o Tlv(Tag.OctetString, MarshalPKCS1PrivateKey(key)))

\* PKCS#8 octets of a key of another algorithm (an elliptic-curve key)
MarshalPKCS8ECKey(d) ==
    Tlv(Tag.Sequence,
        DerInteger(BigZero)
        \o AlgorithmIdentifier(Oid.ECPublicKey)
        \o Tlv(Tag.OctetString,
               Tlv(Tag.Sequence,
                   DerInteger(BigOne) \o Tlv(Tag.OctetString, d))))

\* x509.ParsePKCS8PrivateKey: the key and its dynamic type
ParsePKCS8PrivateKey(b) ==
    LET bad(msg) == [key |-> NIL, type |-> "", err |-> msg]
    IN  Let(ReadSequence(b, Tag.Sequence,
                         <<Tag.Integer, Tag.Sequence, Tag.OctetString>>),
            LAMBDA p :
        IF ~p.ok \/ p.items[1].content # <<0>>
        THEN bad("x509: failed to parse private key")
        ELSE IF Item(p.items[2]) = AlgorithmIdentifier(Oid.RSAEncryption)
        THEN Let(ReadSequence(p.items[3].content, Tag.Sequence,
                              <<Tag.Integer, Tag.Integer, Tag.Integer>>),
                 LAMBDA rsa :
             IF ~rsa.ok
             THEN bad("x509: failed to parse RSA private key embedded in PKCS#8")
             ELSE Let(ReadInteger(rsa.items[1].content), LAMBDA v :
                  Let(ReadInteger(rsa.items[2].content), LAMBDA n :
                  Let(ReadInteger(rsa.items[3].content), LAMBDA e :
                      IF v.ok /\ v.value = BigZero /\ n.ok /\ e.ok
                      THEN [key  |-> [id   |-> ToInt(n.value),
                                      bits |-> ToInt(e.value)],
                            type |-> "*rsa.PrivateKey", err |-> ""]
                      ELSE bad("x509: failed to parse RSA private key embedded in PKCS#8")))))
        ELSE IF Item(p.items[2]) = AlgorithmIdentifier(Oid.ECPublicKey)
        THEN Let(ReadSequence(p.items[3].content, Tag.Sequence,
                              <<Tag.Integer, Tag.OctetString>>), LAMBDA ec :
             IF ec.ok
             THEN [key  |-> [d |-> ec.items[2].content],
                   type |-> "*ecdsa.PrivateKey", err |-> ""]
             ELSE bad("x509: failed to parse EC private key embedded in PKCS#8"))
        ELSE bad("x509: PKCS#8 wrapping contained private key with unknown algorithm"))

\* ------------------------------------------------------------------------
\* encoding/base64 (StdEncoding) and encoding/pem, on octets
\* ------------------------------------------------------------------------
Ascii ==
    [Tab |-> 9, LineFeed |-> 10, CarriageReturn |-> 13, Space |-> 32,
     Plus |-> 43, Minus |-> 45, Slash |-> 47, Equals |-> 61,
     Underscore |-> 95]

\* the characters of a line of a PEM body
PemLineLength == 64

\* mutant: the URL-safe alphabet
Base64CharURL(v) ==
    IF v < 26 THEN 65 + v
    ELSE IF v < 52 THEN 71 + v
    ELSE IF v < 62 THEN v - 4
    ELSE IF v = 62 THEN Ascii.Minus
    ELSE Ascii.Underscore

\* the character of a six-bit value
Base64Char(v) ==
    IF v < 26 THEN 65 + v
    ELSE IF v < 52 THEN 71 + v
    ELSE IF v < 62 THEN v - 4
    ELSE IF v = 62 THEN Ascii.Plus
    ELSE Ascii.Slash

\* the six-bit value of a character, -1 when it is not in the alphabet
Base64Value(c) ==
    IF c >= 65 /\ c <= 90 THEN c - 65
    ELSE IF c >= 97 /\ c <= 122 THEN c - 71
    ELSE IF c >= 48 /\ c <= 57 THEN c + 4
    ELSE IF c = Ascii.Plus THEN 62
    ELSE IF c = Ascii.Slash THEN 63
    ELSE 0 - 1

\* base64.StdEncoding.EncodeToString
StdEncodeToString(b) ==
    LET n == Len(b)
        at(i) == IF i <= n THEN b[i] ELSE 0
    IN  [j \in 1..(4 * ((n + 2) \div 3)) |->
            LET g  == (j - 1) \div 4
                k  == (j - 1) % 4
                b0 == at(3 * g + 1)
                b1 == at(3 * g + 2)
                b2 == at(3 * g + 3)
            IN  IF k = 0 THEN Base64Char(b0 \div 4)
                ELSE IF k = 1 THEN Base64Char((b0 % 4) * 16 + (b1 \div 16))
                ELSE IF k = 2
                THEN (IF 3 * g + 2 > n THEN Ascii.Equals
                      ELSE Base64Char((b1 % 16) * 4 + (b2 \div 64)))
                ELSE (IF 3 * g + 3 > n THEN Ascii.Equals
                      ELSE Base64Char(b2 % 64))]

\* base64.StdEncoding.DecodeString: line breaks are skipped, the padding is
\* required
StdDecodeString(s) ==
    LET NotNewline(c) == c # Ascii.LineFeed /\ c # Ascii.CarriageReturn
    IN  Let(SelectSeq(s, NotNewline), LAMBDA t :
        Let(IF Len(t) >= 1 /\ t[Len(t)] = Ascii.Equals
            THEN (IF Len(t) >= 2 /\ t[Len(t) - 1] = Ascii.Equals
                  THEN 2 ELSE 1)
            ELSE 0, LAMBDA pad :
        Let([i \in 1..Len(t) |->
                IF i <= Len(t) - pad THEN Base64Value(t[i]) ELSE 0],
            LAMBDA v :
            IF Len(t) % 4 # 0 \/ \E i \in 1..Len(t) : v[i] < 0
            THEN [ok |-> FALSE, bytes |-> <<>>]
            ELSE [ok    |-> TRUE,
                  bytes |-> [i \in 1..((Len(t) \div 4) * 3 - pad) |->
                      LET g == (i - 1) \div 3
                          k == (i - 1) % 3
                      IN  IF k = 0
                          THEN v[4 * g + 1] * 4 + (v[4 * g + 2] \div 16)
                          ELSE IF k = 1
                          THEN (v[4 * g + 2] % 16) * 16
                               + (v[4 * g + 3] \div 4)
                          ELSE (v[4 * g + 3] % 4) * 64 + v[4 * g + 4]]])))

\* "-----BEGIN ", "-----END " after a line feed, and "-----"
PemStart == <<10, 45, 45, 45, 45, 45, 66, 69, 71, 73, 78, 32>>
PemEnd == <<10, 45, 45, 45, 45, 45, 69, 78, 68, 32>>
PemEndOfLine == <<45, 45, 45, 45, 45>>

\* "CERTIFICATE" and "PRIVATE KEY"
LabelCertificate == <<67, 69, 82, 84, 73, 70, 73, 67, 65, 84, 69>>
LabelPrivateKey == <<80, 82, 73, 86, 65, 84, 69, 32, 75, 69, 89>>

HasPrefix(s, p) == Len(s) >= Len(p) /\ SubSeq(s, 1, Len(p)) = p

HasSuffix(s, p) ==
    Len(s) >= Len(p) /\ SubSeq(s, Len(s) - Len(p) + 1, Len(s)) = p

\* bytes.Index, counting from 1; 0 when p does not occur in s
Index(s, p) ==
    LET at == {i \in 1..(Len(s) - Len(p) + 1) :
                  SubSeq(s, i, i + Len(p) - 1) = p}
    IN  IF at = {} THEN 0 ELSE CHOOSE i \in at : \A j \in at : i <= j

Drop(s, n) == SubSeq(s, n + 1, Len(s))

RECURSIVE TrimRight(_)
TrimRight(s) ==
    IF s # <<>> /\ s[Len(s)] \in {Ascii.Space, Ascii.Tab, Ascii.CarriageReturn}
    THEN TrimRight(SubSeq(s, 1, Len(s) - 1))
    ELSE s

\* pem.getLine: the first line without trailing white space, and the rest
GetLine(data) ==
    Let(Index(data, <<Ascii.LineFeed>>), LAMBDA i :
        IF i = 0 THEN [line |-> TrimRight(data), rest |-> <<>>]
        ELSE [line |-> TrimRight(SubSeq(data, 1, i - 1)),
              rest |-> Drop(data, i)])

\* the base64 text in lines of 64 characters
RECURSIVE PemLines(_)
PemLines(s) ==
    IF s = <<>> THEN <<>>
    ELSE IF Len(s) <= PemLineLength THEN s \o <<Ascii.LineFeed>>
    ELSE SubSeq(s, 1, PemLineLength) \o <<Ascii.LineFeed>>
         \o PemLines(Drop(s, PemLineLength))

\* pem.EncodeToMemory of a block without headers
PemEncodeToMemory(block) ==
    Tail(PemStart) \o block.Type \o PemEndOfLine \o <<Ascii.LineFeed>>
    \o PemLines(StdEncodeToString(block.Bytes))
    \o Tail(PemEnd) \o block.Type \o PemEndOfLine \o <<Ascii.LineFeed>>

\* the loop of pem.Decode: the first block of the data that has a begin
\* line, a matching end line and a base64 body, with the data after its end
\* line; NIL when there is none.  Blocks with headers are outside the model.
RECURSIVE PemDecodeFrom(_)
PemDecodeFrom(data) ==
    LET NotSpaceOrTab(c) == c # Ascii.Space /\ c # Ascii.Tab
        none == [block |-> NIL, rest |-> <<>>]
    IN  Let(Index(data, PemStart), LAMBDA at :
        Let(GetLine(IF HasPrefix(data, Tail(PemStart))
                    THEN Drop(data, Len(PemStart) - 1)
                    ELSE Drop(data, at + Len(PemStart) - 1)),
            LAMBDA typeLine :
        Let(SubSeq(typeLine.line, 1,
                   Len(typeLine.line) - Len(PemEndOfLine)), LAMBDA type :
        Let(typeLine.rest, LAMBDA rest :
        Let(Index(rest, PemEnd), LAMBDA endAt :
        \* the offsets of the end marker and of what follows it
        Let(IF HasPrefix(rest, Tail(PemEnd)) THEN 0 ELSE endAt - 1,
            LAMBDA endIndex :
        Let(IF HasPrefix(rest, Tail(PemEnd)) THEN Len(PemEnd) - 1
            ELSE endIndex + Len(PemEnd), LAMBDA endTrailerIndex :
        Let(Drop(rest, endTrailerIndex), LAMBDA trailer :
        Let(Len(type) + Len(PemEndOfLine), LAMBDA endTrailerLen :
        Let(SubSeq(trailer, 1, endTrailerLen), LAMBDA endTrailer :
            IF ~(HasPrefix(data, Tail(PemStart)) \/ at # 0) THEN none
            ELSE IF ~HasSuffix(typeLine.line, PemEndOfLine)
            THEN PemDecodeFrom(rest)
            ELSE IF rest = <<>> THEN none
            ELSE IF endIndex < 0 THEN PemDecodeFrom(rest)
            ELSE IF Len(trailer) < endTrailerLen THEN PemDecodeFrom(rest)
            ELSE IF ~(HasPrefix(endTrailer, type)
                      /\ HasSuffix(endTrailer, PemEndOfLine))
            THEN PemDecodeFrom(rest)
            ELSE IF GetLine(Drop(trailer, endTrailerLen)).line # <<>>
            THEN PemDecodeFrom(rest)
            ELSE Let(StdDecodeString(SelectSeq(SubSeq(rest, 1, endIndex),
                                               NotSpaceOrTab)),
                     LAMBDA body :
                 IF ~body.ok THEN PemDecodeFrom(rest)
                 ELSE [block |-> [Type |-> type, Bytes |-> body.bytes],
                       rest  |-> GetLine(Drop(rest, endIndex + Len(PemEnd)
                                                     - 1)).rest])))))))))))

\* pem.Decode: the block and the rest; without a block the rest is the data
PemDecode(data) ==
    Let(PemDecodeFrom(data), LAMBDA r :
        IF r.block = NIL THEN [block |-> NIL, rest |-> data] ELSE r)

\* ------------------------------------------------------------------------
\* pkg/encoding
\* ------------------------------------------------------------------------
Encoded(out, err, panic) == [out |-> out, err |-> err, panic |-> panic]

\* mutant: cert.Raw is read without a nil check
EncodeCertificateToPEMUnchecked(cert) ==
    IF cert = NIL
    THEN Encoded(<<>>, "", TRUE)
    ELSE Encoded(PemEncodeToMemory([Type  |-> LabelCertificate,
                                    Bytes |-> RawBytes(cert)]), "", FALSE)

EncodeCertificateToPEM(cert) ==
    IF cert = NIL
    THEN Encoded(<<>>, "certificate is nil", FALSE)
    ELSE Encoded(PemEncodeToMemory([Type  |-> LabelCertificate,
                                    Bytes |-> RawBytes(cert)]), "", FALSE)

\* "RSA PRIVATE KEY"
LabelRSAPrivateKey ==
    <<82, 83, 65, 32, 80, 82, 73, 86, 65, 84, 69, 32, 75, 69, 89>>

\* mutant: the legacy container of RSA keys
EncodePrivateKeyToPEMLegacy(key) ==
    IF key = NIL
    THEN Encoded(<<>>, "private key is nil", FALSE)
    ELSE Encoded(PemEncodeToMemory([Type  |-> LabelRSAPrivateKey,
                                    Bytes |-> MarshalPKCS1PrivateKey(key)]),
                 "", FALSE)

EncodePrivateKeyToPEM(key) ==
    IF key = NIL
    THEN Encoded(<<>>, "private key is nil", FALSE)
    ELSE Encoded(PemEncodeToMemory([Type  |-> LabelPrivateKey,
                                    Bytes |-> MarshalPKCS8PrivateKey(key)]),
                 "", FALSE)

\* mutant: data without a block is passed through
ConvertPEMToDERLenient(pemData) ==
    Let(PemDecode(pemData).block, LAMBDA block :
        IF block = NIL
        THEN Encoded(pemData, "", FALSE)
        ELSE Encoded(block.Bytes, "", FALSE))

ConvertPEMToDER(pemData) ==
    Let(PemDecode(pemData).block, LAMBDA block :
        IF block = NIL
        THEN Encoded(<<>>, "failed to parse PEM block", FALSE)
        ELSE Encoded(block.Bytes, "", FALSE))

EncodeDERToBase64(derData) == StdEncodeToString(derData)

\* reads cert.Raw without a nil check
ConvertCertificateToBase64DER(cert) ==
    IF cert = NIL
    THEN Encoded(<<>>, "", TRUE)
    ELSE Encoded(EncodeDERToBase64(RawBytes(cert)), "", FALSE)

DecodePEMCertificate(pemData) ==
    Let(PemDecode(pemData).block, LAMBDA block :
        IF block = NIL
        THEN [cert |-> NIL, err |-> "failed to parse PEM block"]
        ELSE Let(ParseCertificateDER(block.Bytes), LAMBDA parsed :
                 IF parsed.err # ""
                 THEN [cert |-> NIL, err |-> "failed to parse certificate"]
                 ELSE [cert |-> parsed.cert, err |-> ""]))

DecodePEMPrivateKey(pemData) ==
    Let(PemDecode(pemData).block, LAMBDA block :
        IF block = NIL
        THEN [key |-> NIL, err |-> "failed to parse PEM block"]
        ELSE Let(ParsePKCS8PrivateKey(block.Bytes), LAMBDA parsed :
                 IF parsed.err # ""
                 THEN [key |-> NIL, err |-> "failed to parse private key"]
                 ELSE IF parsed.type # "*rsa.PrivateKey"
                 THEN [key |-> NIL, err |-> "key is not an RSA private key"]
                 ELSE [key |-> parsed.key, err |-> ""]))

\* ------------------------------------------------------------------------
\* pkg/fileio: FileWriter
\* ------------------------------------------------------------------------
\* os.FileMode(0644) and 0600
PermDefault == 420
PermKey == 384

\* mutant: the file names carry the whole domain
NewFileWriterWholeDomain(domain) == [subdomain |-> domain]

\* fileio.NewFileWriter(domain): strings.Split(domain, ".")[0]
NewFileWriter(domain) ==
    LET dot == Index(domain, <<46>>)
    IN  [subdomain |-> IF dot = 0 THEN domain
                       ELSE SubSeq(domain, 1, dot - 1)]

\* the path methods of a FileWriter, one field each
FilePaths(fw) ==
    [GetRootKeyPath    |-> fw.subdomain
        \o <<95, 114, 111, 111, 116, 67, 65, 46, 107, 101, 121>>,
     GetRootCertPath   |-> fw.subdomain
        \o <<95, 114, 111, 111, 116, 67, 65, 46, 112, 101, 109>>,
     GetLeafKeyPath    |-> fw.subdomain
        \o <<95, 108, 101, 97, 102, 46, 107, 101, 121>>,
     GetLeafCertPath   |-> fw.subdomain
        \o <<95, 108, 101, 97, 102, 46, 112, 101, 109>>,
     GetLeafCSRPath    |-> fw.subdomain
        \o <<95, 108, 101, 97, 102, 46, 99, 115, 114>>,
     GetPKCS12Path     |-> fw.subdomain
        \o <<95, 99, 101, 114, 116, 115, 46, 112, 49, 50>>,
     GetRootBase64Path |-> fw.subdomain
        \o <<95, 114, 111, 111, 116, 67, 65, 95, 98, 97, 115, 101, 54, 52,
              46, 116, 120, 116>>,
     GetLeafBase64Path |-> fw.subdomain
        \o <<95, 108, 101, 97, 102, 95, 98, 97, 115, 101, 54, 52,
              46, 116, 120, 116>>]

\* a file system maps the paths of its files to their octets and mode
File(data, perm) == [data |-> data, perm |-> perm]

\* os.WriteFile(path, data, perm) by a process that is not the superuser
\* and whose umask clears no bit of perm: O_WRONLY|O_CREATE|O_TRUNC, where
\* perm is the mode of a file the call creates; a file that exists keeps
\* its mode and has to be writable by its owner
OsWriteFile(fs, path, data, perm) ==
    IF path \in DOMAIN fs
    THEN IF (fs[path].perm \div 128) % 2 = 0
         THEN [fs |-> fs, err |-> "permission denied"]
         ELSE [fs  |-> [fs EXCEPT ![path] = File(data, @.perm)],
               err |-> ""]
    ELSE [fs |-> (path :> File(data, perm)) @@ fs, err |-> ""]

\* FileWriter.WriteFile(path, data); the directory of every path of the
\* model is the working directory, which os.MkdirAll finds in place
WriteFile(fs, path, data) ==
    LET perm == IF Index(path, <<46, 107, 101, 121>>) # 0
                THEN PermKey ELSE PermDefault
        w    == OsWriteFile(fs, path, data, perm)
    IN  IF w.err # ""
        THEN [fs |-> w.fs, err |-> "failed to write file"]
        ELSE w

\* FileWriter.WriteBase64File(path, base64Data)
WriteBase64File(fs, path, base64Data) == WriteFile(fs, path, base64Data)

\* ------------------------------------------------------------------------
\* pkg/pkcs12
\* ------------------------------------------------------------------------
\* the openssl command of the machine: whether exec.LookPath finds it, the
\* status it exits with when nothing is wrong with its arguments (-1: it
\* never exits), and whether it writes its output file when it exits with 0
Tools ==
    {[installed |-> TRUE, exit |-> 0, out |-> TRUE],
     [installed |-> FALSE, exit |-> 0, out |-> FALSE],
     [installed |-> TRUE, exit |-> 1, out |-> FALSE],
     [installed |-> TRUE, exit |-> 0, out |-> FALSE],
     [installed |-> TRUE, exit |-> 0 - 1, out |-> FALSE]}

\* the directory bit of the mode of a file
ModeDir == 16384

\* os.MkdirTemp("", "certgen"): a new directory of mode 0700 under
\* os.TempDir(), which exists and is writable; "/tmp/certgen1"
MkdirTemp(fs) ==
    Let(<<47, 116, 109, 112, 47, 99, 101, 114, 116, 103, 101, 110, 49>>,
        LAMBDA dir : [dir |-> dir,
                      fs  |-> (dir :> File(<<>>, ModeDir + 448)) @@ fs])

\* mutant: os.Remove, which removes a directory only when it is empty
RemoveEmpty(fs, path) ==
    IF \E q \in DOMAIN fs : q # path /\ HasPrefix(q, path \o <<47>>)
    THEN fs
    ELSE [p \in DOMAIN fs \ {path} |-> fs[p]]

\* os.RemoveAll(path): path and everything under it
RemoveAll(fs, path) ==
    [p \in {q \in DOMAIN fs : q # path /\ ~HasPrefix(q, path \o <<47>>)} |->
        fs[p]]

\* a PKCS#12 bundle of certificates and a key under a password, with the
\* salt fixed
Pkcs12Bundle(certDER, keyDER, password) ==
    Tlv(Tag.Sequence,
        Tlv(Tag.Integer, <<3>>)
        \o Tlv(Tag.OctetString, certDER)
        \o Tlv(Tag.OctetString, keyDER)
        \o Tlv(Tag.OctetString, Digest(certDER \o keyDER \o password)))

\* the blocks of PEM data, in order
RECURSIVE PemBlocks(_)
PemBlocks(data) ==
    Let(PemDecode(data), LAMBDA r :
        IF r.block = NIL THEN <<>> ELSE <<r.block>> \o PemBlocks(r.rest))

\* openssl pkcs12 -export -out out -inkey inkey -in in -password pass:...:
\* the bundle holds the certificates of the file in and the key of the
\* file inkey
OpensslPkcs12Export(fs, tool, out, inkey, in, password) ==
    Let(PemBlocks(fs[in].data), LAMBDA certs :
    Let(PemDecode(fs[inkey].data).block, LAMBDA key :
        IF tool.exit # 0 THEN [exit |-> tool.exit, fs |-> fs]
        ELSE IF \/ certs = <<>>
                \/ \E i \in 1..Len(certs) : certs[i].Type # LabelCertificate
                \/ key = NIL
        THEN [exit |-> 1, fs |-> fs]
        ELSE IF key.Type # LabelPrivateKey THEN [exit |-> 1, fs |-> fs]
        ELSE IF ~tool.out THEN [exit |-> 0, fs |-> fs]
        ELSE [exit |-> 0,
              fs   |-> (out :> File(Pkcs12Bundle(
                                        Flatten([i \in 1..Len(certs) |->
                                                    certs[i].Bytes]),
                                        key.Bytes, password), PermKey))
                       @@ fs]))

\* what a call of GeneratePKCS12 comes to: the results it returns, or a
\* panic, or neither while it waits in cmd.Run; the file system it leaves;
\* the directory os.MkdirTemp made for it, none when it made none
Pkcs12Outcome(pfx, err, panic, returns, fs, tempDir) ==
    [pfx |-> pfx, err |-> err, panic |-> panic, returns |-> returns,
     fs |-> fs, tempDir |-> tempDir]

\* the files of a call in its temporary directory
Pkcs12Paths(tempDir) ==
    [leafCertPath |-> tempDir \o <<47, 108, 101, 97, 102, 46, 112, 101, 109>>,
     leafKeyPath  |-> tempDir \o <<47, 108, 101, 97, 102, 46, 107, 101, 121>>,
     p12Path      |-> tempDir
                          \o <<47, 98, 117, 110, 100, 108, 101, 46, 112, 49, 50>>]

\* GeneratePKCS12 up to the start of the command: it has returned, or
\* panicked, or (neither) it has written the leaf files into its temporary
\* directory and started openssl
StartExport(fs, tool, leafCert, leafKey) ==
    IF ~tool.installed
    THEN Pkcs12Outcome(<<>>, "openssl command not found in PATH", FALSE,
                       TRUE, fs, <<>>)
    ELSE
    Let(MkdirTemp(fs), LAMBDA temp :
    Let(Pkcs12Paths(temp.dir), LAMBDA at :
    Let(EncodeCertificateToPEM(leafCert), LAMBDA leafCertPEM :
    \* defer os.RemoveAll(tempDir) runs on a return and on a panic
    IF leafCertPEM.panic
    THEN Pkcs12Outcome(<<>>, "", TRUE, FALSE, RemoveAll(temp.fs, temp.dir),
                       temp.dir)
    ELSE IF leafCertPEM.err # ""
    THEN Pkcs12Outcome(<<>>, "failed to encode leaf cert", FALSE, TRUE,
                       RemoveAll(temp.fs, temp.dir), temp.dir)
    ELSE
    Let(OsWriteFile(temp.fs, at.leafCertPath, leafCertPEM.out, PermDefault),
        LAMBDA w1 :
    Let(EncodePrivateKeyToPEM(leafKey), LAMBDA leafKeyPEM :
    IF w1.err # ""
    THEN Pkcs12Outcome(<<>>, "failed to write leaf cert", FALSE, TRUE,
                       RemoveAll(w1.fs, temp.dir), temp.dir)
    ELSE IF leafKeyPEM.panic
    THEN Pkcs12Outcome(<<>>, "", TRUE, FALSE, RemoveAll(w1.fs, temp.dir),
                       temp.dir)
    ELSE IF leafKeyPEM.err # ""
    THEN Pkcs12Outcome(<<>>, "failed to encode leaf key", FALSE, TRUE,
                       RemoveAll(w1.fs, temp.dir), temp.dir)
    ELSE
    Let(OsWriteFile(w1.fs, at.leafKeyPath, leafKeyPEM.out, PermKey),
        LAMBDA w2 :
    IF w2.err # ""
    THEN Pkcs12Outcome(<<>>, "failed to write leaf key", FALSE, TRUE,
                       RemoveAll(w2.fs, temp.dir), temp.dir)
    ELSE Pkcs12Outcome(<<>>, "", FALSE, FALSE, w2.fs, temp.dir)))))))

\* GeneratePKCS12 from the exit of the command it started: cmd.Run returns,
\* the bundle is read, the deferred os.RemoveAll(tempDir) runs
AwaitExport(fs, tool, tempDir, password) ==
    Let(Pkcs12Paths(tempDir), LAMBDA at :
    Let(OpensslPkcs12Export(fs, tool, at.p12Path, at.leafKeyPath,
                            at.leafCertPath, StringBytes[password]),
        LAMBDA ran :
    IF ran.exit # 0
    THEN Pkcs12Outcome(<<>>, "failed to generate PKCS#12", FALSE, TRUE,
                       RemoveAll(ran.fs, tempDir), tempDir)
    ELSE IF at.p12Path \notin DOMAIN ran.fs
    THEN Pkcs12Outcome(<<>>, "failed to read PKCS#12 file", FALSE, TRUE,
                       RemoveAll(ran.fs, tempDir), tempDir)
    ELSE Pkcs12Outcome(ran.fs[at.p12Path].data, "", FALSE, TRUE,
                       RemoveAll(ran.fs, tempDir), tempDir)))

\* Generator.GeneratePKCS12(leafCert, leafKey, caCert, password), which
\* makes no use of caCert; cmd.Run waits for the command without a limit,
\* so with a command that never exits the call neither returns nor panics
GeneratePKCS12(fs, tool, leafCert, leafKey, caCert, password) ==
    Let(StartExport(fs, tool, leafCert, leafKey), LAMBDA started :
        IF started.returns \/ started.panic \/ tool.exit < 0
        THEN started
        ELSE AwaitExport(started.fs, tool, started.tempDir, password))

\* ------------------------------------------------------------------------
\* cmd/certgen: main
\* ------------------------------------------------------------------------
MaxValidityDays == 36500

\* mutant: the validity has no upper limit
MainChecksNoUpperLimit(cfg, showVersion) ==
    IF showVersion
    THEN [run |-> FALSE, exit |-> 0, stderr |-> <<>>]
    ELSE IF cfg.Domain = <<>>
    THEN [run |-> FALSE, exit |-> 1,
          stderr |-> <<"Error: --domain flag is required", "Usage">>]
    ELSE IF cfg.ValidityDays <= 0
    THEN [run |-> FALSE, exit |-> 1,
          stderr |->
              <<"Error: --days must be between 1 and 36500 (100 years)">>]
    ELSE [run |-> TRUE, exit |-> 0, stderr |-> <<>>]

\* main, from flag.Parse to the call of run: whether run is called, and
\* the exit status and the lines on standard error when it is not
MainChecks(cfg, showVersion) ==
    IF showVersion
    THEN [run |-> FALSE, exit |-> 0, stderr |-> <<>>]
    ELSE IF cfg.Domain = <<>>
    THEN [run |-> FALSE, exit |-> 1,
          stderr |-> <<"Error: --domain flag is required", "Usage">>]
    ELSE IF cfg.ValidityDays <= 0 \/ cfg.ValidityDays > MaxValidityDays
    THEN [run |-> FALSE, exit |-> 1,
          stderr |->
              <<"Error: --days must be between 1 and 36500 (100 years)">>]
    ELSE [run |-> TRUE, exit |-> 0, stderr |-> <<>>]

\* ------------------------------------------------------------------------
\* State
\* ------------------------------------------------------------------------
VARIABLES
    config,   \* Generator.config: a CertificateConfig or NIL
    now,      \* the wall clock
    keys,     \* the keys rsa.GenerateKey has returned, oldest first
    issued,   \* the certificates returned so far, with the call's arguments
    randLog,  \* the values rand.Int has returned, oldest first
    last,     \* the most recent call and what it returned
    aborted,  \* the process has panicked
    files,    \* the file system: the octets and mode of the file at a path
    tool,     \* the openssl command of the machine
    proc      \* the process of the command: where it is in main and run,
              \* its exit status, its standard error, the paths it wrote

vars ==
    <<config, now, keys, issued, randLog, last, aborted, files, tool, proc>>

\* what the calls of a library's operations leave alone
cli == <<files, tool, proc>>

\* no process of the command
NoProcess ==
    [pc |-> "none", showVersion |-> FALSE, exit |-> 0 - 1, stderr |-> <<>>,
     written |-> <<>>]

StartOfClock == [day |-> 20000, sec |-> 86399, nsec |-> 250000000]

\* the time rsa.GenerateKey takes in the model: half a day and half a
\* second, so that the clock crosses seconds and days
KeyGenDurations == {MulSmall(FromInt(43200500), 1000000)}

Call(op, args, cert, key, csr, out, err) ==
    [op |-> op, args |-> args, cert |-> cert, key |-> key, csr |-> csr,
     out |-> out, err |-> err]

\* certificate.NewGenerator(cfg)
NewGenerator(cfg) == cfg

Init ==
    /\ config \in {NewGenerator(c) : c \in Configs \cup {NIL}}
    /\ now = StartOfClock
    /\ keys = <<>>
    /\ issued = <<>>
    /\ randLog = <<>>
    /\ last = Call("none", <<>>, NIL, NIL, NIL, NIL, "")
    /\ aborted = FALSE
    /\ files = <<>>
    /\ tool = [installed |-> TRUE, exit |-> 0, out |-> TRUE]
    /\ proc = NoProcess

IssuedCerts == {issued[i].cert : i \in 1..Len(issued)}
KnownKeys == {keys[i] : i \in 1..Len(keys)}

\* the effect of a generator call with outcome r, which read the clock at t
Generated(op, args, r, t, serialNumber, kind) ==
    /\ r.newKey # NIL => Len(keys) < MaxKeys
    /\ keys' = IF r.newKey # NIL THEN Append(keys, r.newKey) ELSE keys
    /\ now' = IF r.newKey # NIL THEN t ELSE now
    /\ randLog' = IF r.drew THEN Append(randLog, serialNumber) ELSE randLog
    /\ issued' = IF r.cert # NIL
                 THEN Append(issued, [kind |-> kind, cert |-> r.cert,
                                      key |-> r.key, args |-> args,
                                      draw |-> Len(randLog) + 1])
                 ELSE issued
    /\ last' = Call(op, args, r.cert, r.key, r.csr, NIL, r.err)
    /\ aborted' = r.panic
    /\ UNCHANGED config

CallGeneratePrivateKey ==
    /\ ~aborted
    /\ UNCHANGED cli
    /\ \E elapsed \in KeyGenDurations :
          LET k == GeneratePrivateKey(config, Len(keys) + 1)
          IN  Generated("GeneratePrivateKey", <<>>,
                        Outcome(NIL, k.key, NIL, k.err, FALSE, k.key, FALSE),
                        TimeAdd(now, elapsed), BigZero, "key")

CallGenerateRootCA ==
    /\ ~aborted
    /\ UNCHANGED cli
    /\ \E elapsed \in KeyGenDurations,
          serialNumber \in RandInt(RootSerialMax) :
          LET t == TimeAdd(now, elapsed)
          IN  Generated("GenerateRootCA", <<>>,
                        GenerateRootCA(config, Len(keys) + 1, t, serialNumber),
                        t, serialNumber, "root")

CallGenerateLeafCertificate ==
    /\ ~aborted
    /\ UNCHANGED cli
    /\ \E elapsed \in KeyGenDurations,
          serialNumber \in RandInt(LeafSerialMax),
          caCert \in IssuedCerts \cup {NIL},
          caKey \in KnownKeys \cup {NIL} :
          LET t == TimeAdd(now, elapsed)
          IN  Generated("GenerateLeafCertificate", <<caCert, caKey>>,
                        GenerateLeafCertificate(config, Len(keys) + 1, t,
                                                serialNumber, caCert, caKey),
                        t, serialNumber, "leaf")

CallGenerateCertificateRequest ==
    /\ ~aborted
    /\ UNCHANGED cli
    /\ \E key \in KnownKeys \cup {NIL} :
          Generated("GenerateCertificateRequest", <<key>>,
                    GenerateCertificateRequest(config, now, key),
                    now, BigZero, "csr")

\* the effect of an encoding call with result e
EncodedCall(op, args, e) ==
    /\ last' = Call(op, args, NIL, NIL, NIL, e.out, e.err)
    /\ aborted' = e.panic
    /\ UNCHANGED <<config, now, keys, issued, randLog>>

CallEncodeCertificateToPEM ==
    /\ ~aborted
    /\ UNCHANGED cli
    /\ \E cert \in IssuedCerts \cup {NIL} :
          EncodedCall("EncodeCertificateToPEM", <<cert>>,
                      EncodeCertificateToPEM(cert))

CallEncodePrivateKeyToPEM ==
    /\ ~aborted
    /\ UNCHANGED cli
    /\ \E key \in KnownKeys \cup {NIL} :
          EncodedCall("EncodePrivateKeyToPEM", <<key>>,
                      EncodePrivateKeyToPEM(key))

CallConvertCertificateToBase64DER ==
    /\ ~aborted
    /\ UNCHANGED cli
    /\ \E cert \in IssuedCerts \cup {NIL} :
          EncodedCall("ConvertCertificateToBase64DER", <<cert>>,
                      ConvertCertificateToBase64DER(cert))

Next ==
    \/ CallGeneratePrivateKey
    \/ CallGenerateRootCA
    \/ CallGenerateLeafCertificate
    \/ CallGenerateCertificateRequest
    \/ CallEncodeCertificateToPEM
    \/ CallEncodePrivateKeyToPEM
    \/ CallConvertCertificateToBase64DER

Spec == Init /\ [][Next]_vars

\* ------------------------------------------------------------------------
\* pkg/encoding applied to the artifacts of one run: a root CA and a leaf
\* it signed, and to data that did not come from the encoders
\* ------------------------------------------------------------------------
\* "not a valid PEM" and "test DER data"
NotAValidPEM ==
    <<110, 111, 116, 32, 97, 32, 118, 97, 108, 105, 100, 32, 80, 69, 77>>
TestDERData == <<116, 101, 115, 116, 32, 68, 69, 82, 32, 100, 97, 116, 97>>

Labels == {LabelCertificate, LabelPrivateKey}

\* the first half of the octets: a payload cut short
Truncated(b) == SubSeq(b, 1, Len(b) \div 2)

\* binary payloads: the certificates and keys of the run, a key of another
\* algorithm, whole and cut short, and text
DerInputs ==
    {RawBytes(c) : c \in IssuedCerts}
    \cup {MarshalPKCS8PrivateKey(k) : k \in KnownKeys}
    \cup {MarshalPKCS8ECKey(<<7>>),
          Truncated(MarshalPKCS8ECKey(<<7>>)),
          TestDERData}

Envelopes ==
    {PemEncodeToMemory([Type |-> l, Bytes |-> d]) :
        l \in Labels, d \in DerInputs}

\* an envelope whose last line is not terminated
Unterminated(p) == SubSeq(p, 1, Len(p) - 1)

\* PEM data: every payload under every label, the payload cut short in an
\* envelope without the final line feed, the first half of an envelope,
\* text that holds no envelope, nothing
PemInputs ==
    Envelopes
    \cup {Unterminated(PemEncodeToMemory(
              [Type  |-> l,
               Bytes |-> Truncated(MarshalPKCS8ECKey(<<7>>))])) :
             l \in Labels}
    \cup {Truncated(PemEncodeToMemory([Type  |-> LabelCertificate,
                                       Bytes |-> TestDERData])),
          NotAValidPEM, <<>>}

\* the configurations of the runs whose artifacts are encoded
EncodingConfigs ==
    {NewCertificateConfig(d, 90, 2048) : d \in {DomainExample, DomainEmpty}}

\* the generator after GenerateRootCA and then GenerateLeafCertificate
\* with the root CA it returned, for a configuration of cfgs
AfterGeneration(cfgs) ==
    \E cfg \in cfgs, elapsed \in KeyGenDurations,
       rootSerial \in RandInt(RootSerialMax),
       leafSerial \in RandInt(LeafSerialMax) :
    \E t1 \in {TimeAdd(StartOfClock, elapsed)} :
    \E t2 \in {TimeAdd(t1, elapsed)} :
    \E root \in {GenerateRootCA(cfg, 1, t1, rootSerial)} :
    \E leaf \in {GenerateLeafCertificate(cfg, 2, t2, leafSerial,
                                         root.cert, root.key)} :
        /\ root.err = ""
        /\ leaf.err = ""
        /\ config = NewGenerator(cfg)
        /\ now = t2
        /\ keys = <<root.key, leaf.key>>
        /\ issued = <<[kind |-> "root", cert |-> root.cert,
                       key |-> root.key, args |-> <<>>, draw |-> 1],
                      [kind |-> "leaf", cert |-> leaf.cert,
                       key |-> leaf.key,
                       args |-> <<root.cert, root.key>>, draw |-> 2]>>
        /\ randLog = <<rootSerial, leafSerial>>
        /\ last = Call("GenerateLeafCertificate", <<root.cert, root.key>>,
                       leaf.cert, leaf.key, NIL, NIL, "")
        /\ aborted = FALSE

EncodingInit ==
    /\ AfterGeneration(EncodingConfigs)
    /\ files = <<>>
    /\ tool = [installed |-> TRUE, exit |-> 0, out |-> TRUE]
    /\ proc = NoProcess

CallConvertPEMToDER ==
    /\ ~aborted
    /\ UNCHANGED cli
    /\ \E pemData \in PemInputs :
          EncodedCall("ConvertPEMToDER", <<pemData>>,
                      ConvertPEMToDER(pemData))

CallEncodeDERToBase64 ==
    /\ ~aborted
    /\ UNCHANGED cli
    /\ \E derData \in DerInputs :
          EncodedCall("EncodeDERToBase64", <<derData>>,
                      Encoded(EncodeDERToBase64(derData), "", FALSE))

CallDecodePEMCertificate ==
    /\ ~aborted
    /\ UNCHANGED cli
    /\ \E pemData \in PemInputs :
          LET r == DecodePEMCertificate(pemData)
          IN  /\ last' = Call("DecodePEMCertificate", <<pemData>>,
                              r.cert, NIL, NIL, <<>>, r.err)
              /\ UNCHANGED <<config, now, keys, issued, randLog, aborted>>

CallDecodePEMPrivateKey ==
    /\ ~aborted
    /\ UNCHANGED cli
    /\ \E pemData \in PemInputs :
          LET r == DecodePEMPrivateKey(pemData)
          IN  /\ last' = Call("DecodePEMPrivateKey", <<pemData>>,
                              NIL, r.key, NIL, <<>>, r.err)
              /\ UNCHANGED <<config, now, keys, issued, randLog, aborted>>

EncodingNext ==
    \/ CallEncodeCertificateToPEM
    \/ CallEncodePrivateKeyToPEM
    \/ CallConvertPEMToDER
    \/ CallEncodeDERToBase64
    \/ CallConvertCertificateToBase64DER
    \/ CallDecodePEMCertificate
    \/ CallDecodePEMPrivateKey

EncodingSpec == EncodingInit /\ [][EncodingNext]_vars

\* ------------------------------------------------------------------------
\* The command: one process running main, on a machine whose file system
\* may hold files of an earlier run
\* ------------------------------------------------------------------------
\* the sibling of the example domain under the same first label
DomainSibling == <<97, 46, 99>>

\* the values of the -domain and -days flags, one varied at a time; the
\* other fields keep the defaults of NewCertificateConfig
CliConfigs ==
    {NewCertificateConfig(d, 3650, 4096) : d \in Domains \cup {DomainSibling}}
    \cup {NewCertificateConfig(DomainExample, v, 4096) :
              v \in {0 - 1, 0, 1, MaxValidityDays, MaxValidityDays + 1}}

\* the working directory before the run: empty, holding the files of an
\* earlier run for a domain of the same first label that were all written
\* with mode 0644, or holding a read-only leaf key
FileSystems(domain) ==
    LET paths == FilePaths(NewFileWriter(domain))
        all   == {paths.GetRootKeyPath, paths.GetRootCertPath,
                  paths.GetLeafKeyPath, paths.GetLeafCertPath,
                  paths.GetPKCS12Path, paths.GetRootBase64Path,
                  paths.GetLeafBase64Path}
    IN  {<<>>,
         [p \in all |-> File(TestDERData, PermDefault)],
         [p \in {paths.GetLeafKeyPath} |-> File(TestDERData, 256)]}

MainInit ==
    /\ \E cfg \in CliConfigs, showVersion \in BOOLEAN :
          /\ config = cfg
          /\ files \in FileSystems(cfg.Domain)
          /\ proc = [pc |-> "main", showVersion |-> showVersion,
                     exit |-> 0 - 1, stderr |-> <<>>, written |-> <<>>]
    /\ tool \in Tools
    /\ now = StartOfClock
    /\ keys = <<>>
    /\ issued = <<>>
    /\ randLog = <<>>
    /\ last = Call("none", <<>>, NIL, NIL, NIL, NIL, "")
    /\ aborted = FALSE

\* os.Exit(1) after the lines written to standard error
Fatal(p, lines) ==
    [p EXCEPT !.pc = "exited", !.exit = 1, !.stderr = @ \o lines]

\* mutant: an error is logged and run goes on with the next step
AfterStepLoggingErrors(panic, err, path, next) ==
    IF panic THEN [proc EXCEPT !.pc = "exited", !.exit = 2]
    ELSE LET p == IF err # <<>> THEN [proc EXCEPT !.stderr = @ \o err]
                  ELSE IF path = <<>> THEN proc
                  ELSE [proc EXCEPT !.written = Append(@, path)]
         IN  IF next = "exited"
             THEN [p EXCEPT !.pc = "exited", !.exit = 0]
             ELSE [p EXCEPT !.pc = next]

\* the process after a step of run that returned err: log.Fatalf when it
\* is an error, the next step otherwise, exit status 0 after the last, and
\* exit status 2 when the step panicked
AfterStep(panic, err, path, next) ==
    IF panic THEN [proc EXCEPT !.pc = "exited", !.exit = 2]
    ELSE IF err # <<>> THEN Fatal(proc, err)
    ELSE LET p == IF path = <<>> THEN proc
                  ELSE [proc EXCEPT !.written = Append(@, path)]
         IN  IF next = "exited"
             THEN [p EXCEPT !.pc = "exited", !.exit = 0]
             ELSE [p EXCEPT !.pc = next]

\* main up to the call of run
Main ==
    /\ proc.pc = "main"
    /\ LET checked == MainChecks(config, proc.showVersion)
       IN  proc' = IF checked.run
                   THEN [proc EXCEPT !.pc = "GenerateRootCA"]
                   ELSE [proc EXCEPT !.pc = "exited",
                                     !.exit = checked.exit,
                                     !.stderr = checked.stderr]
    /\ UNCHANGED <<config, now, keys, issued, randLog, last, aborted,
                   files, tool>>

\* the artifacts run holds in rootCert, rootKey, leafCert and leafKey
RunRoot == issued[1]
RunLeaf == issued[2]
RunPaths == FilePaths(NewFileWriter(config.Domain))

\* run: certGen.GenerateRootCA()
RunGenerateRootCA ==
    /\ proc.pc = "GenerateRootCA"
    /\ \E elapsed \in KeyGenDurations,
          serialNumber \in RandInt(RootSerialMax) :
          \E t \in {TimeAdd(now, elapsed)} :
          \E r \in {GenerateRootCA(NewGenerator(config), Len(keys) + 1, t,
                                    serialNumber)} :
              /\ Generated("GenerateRootCA", <<>>, r, t, serialNumber,
                           "root")
              /\ proc' = AfterStep(r.panic,
                                   IF r.err = "" THEN <<>>
                                   ELSE <<"failed to generate root CA",
                                          r.err>>,
                                   <<>>, "SaveRootKey")
    /\ UNCHANGED <<files, tool>>

\* run: certGen.GenerateLeafCertificate(rootCert, rootKey)
RunGenerateLeafCertificate ==
    /\ proc.pc = "GenerateLeafCertificate"
    /\ \E elapsed \in KeyGenDurations,
          serialNumber \in RandInt(LeafSerialMax) :
          \E t \in {TimeAdd(now, elapsed)} :
          \E r \in {GenerateLeafCertificate(NewGenerator(config),
                                             Len(keys) + 1, t, serialNumber,
                                             RunRoot.cert, RunRoot.key)} :
              /\ Generated("GenerateLeafCertificate",
                           <<RunRoot.cert, RunRoot.key>>, r, t,
                           serialNumber, "leaf")
              /\ proc' = AfterStep(r.panic,
                                   IF r.err = "" THEN <<>>
                                   ELSE <<"failed to generate leaf certificate",
                                          r.err>>,
                                   <<>>, "SaveLeafKey")
    /\ UNCHANGED <<files, tool>>

\* a step of run that encodes an artifact and writes the result to path:
\* e is what the encoder returned, fs the file system it left, w what the
\* file writer returned
Save(op, args, e, fs, failure, w, path, next) ==
    /\ files' = IF e.panic \/ e.err # "" THEN fs ELSE w.fs
    /\ proc' = AfterStep(e.panic,
                         IF e.err # "" THEN <<failure, e.err>>
                         ELSE IF w.err # "" THEN <<w.err>>
                         ELSE <<>>,
                         path, next)
    /\ last' = Call(op, args, NIL, NIL, NIL, e.out, e.err)
    /\ aborted' = e.panic
    /\ UNCHANGED <<config, now, keys, issued, randLog, tool>>

RunSaveRootKey ==
    /\ proc.pc = "SaveRootKey"
    /\ \E e \in {EncodePrivateKeyToPEM(RunRoot.key)} :
           Save("EncodePrivateKeyToPEM", <<RunRoot.key>>, e, files,
                "failed to encode root key",
                WriteFile(files, RunPaths.GetRootKeyPath, e.out),
                RunPaths.GetRootKeyPath, "SaveRootCert")

RunSaveRootCert ==
    /\ proc.pc = "SaveRootCert"
    /\ \E e \in {EncodeCertificateToPEM(RunRoot.cert)} :
           Save("EncodeCertificateToPEM", <<RunRoot.cert>>, e, files,
                "failed to encode root certificate",
                WriteFile(files, RunPaths.GetRootCertPath, e.out),
                RunPaths.GetRootCertPath, "GenerateLeafCertificate")

RunSaveLeafKey ==
    /\ proc.pc = "SaveLeafKey"
    /\ \E e \in {EncodePrivateKeyToPEM(RunLeaf.key)} :
           Save("EncodePrivateKeyToPEM", <<RunLeaf.key>>, e, files,
                "failed to encode leaf key",
                WriteFile(files, RunPaths.GetLeafKeyPath, e.out),
                RunPaths.GetLeafKeyPath, "SaveLeafCert")

RunSaveLeafCert ==
    /\ proc.pc = "SaveLeafCert"
    /\ \E e \in {EncodeCertificateToPEM(RunLeaf.cert)} :
           Save("EncodeCertificateToPEM", <<RunLeaf.cert>>, e, files,
                "failed to encode leaf certificate",
                WriteFile(files, RunPaths.GetLeafCertPath, e.out),
                RunPaths.GetLeafCertPath, "SavePKCS12")

\* run: pkcs12Gen.GeneratePKCS12(leafCert, leafKey, rootCert, password)
\* and the write of the bundle
RunSavePKCS12 ==
    /\ proc.pc = "SavePKCS12"
    /\ \E g \in {GeneratePKCS12(files, tool, RunLeaf.cert, RunLeaf.key,
                                  RunRoot.cert, config.PKCS12Password)} :
           IF ~g.returns /\ ~g.panic
           \* the process waits in cmd.Run
           THEN /\ files' = g.fs
                /\ proc' = [proc EXCEPT !.pc = "cmd.Run"]
                /\ UNCHANGED <<config, now, keys, issued, randLog, last,
                               aborted, tool>>
           ELSE Save("GeneratePKCS12",
                     <<RunLeaf.cert, RunLeaf.key, RunRoot.cert>>,
                     Encoded(g.pfx, g.err, g.panic), g.fs,
                     "failed to generate PKCS#12",
                     WriteFile(g.fs, RunPaths.GetPKCS12Path, g.pfx),
                     RunPaths.GetPKCS12Path, "SaveLeafBase64")

RunSaveLeafBase64 ==
    /\ proc.pc = "SaveLeafBase64"
    /\ \E e \in {ConvertCertificateToBase64DER(RunLeaf.cert)} :
           Save("ConvertCertificateToBase64DER", <<RunLeaf.cert>>, e,
                files,
                "failed to convert leaf certificate to base64",
                WriteBase64File(files, RunPaths.GetLeafBase64Path, e.out),
                RunPaths.GetLeafBase64Path, "SaveRootBase64")

RunSaveRootBase64 ==
    /\ proc.pc = "SaveRootBase64"
    /\ \E e \in {ConvertCertificateToBase64DER(RunRoot.cert)} :
           Save("ConvertCertificateToBase64DER", <<RunRoot.cert>>, e,
                files,
                "failed to convert root certificate to base64",
                WriteBase64File(files, RunPaths.GetRootBase64Path, e.out),
                RunPaths.GetRootBase64Path, "exited")

MainNext ==
    \/ Main
    \/ RunGenerateRootCA
    \/ RunSaveRootKey
    \/ RunSaveRootCert
    \/ RunGenerateLeafCertificate
    \/ RunSaveLeafKey
    \/ RunSaveLeafCert
    \/ RunSavePKCS12
    \/ RunSaveLeafBase64
    \/ RunSaveRootBase64

MainSpec == MainInit /\ [][MainNext]_vars

\* ------------------------------------------------------------------------
\* pkg/pkcs12: one process calling GeneratePKCS12 on a machine with some
\* openssl command
\* ------------------------------------------------------------------------
\* the passwords of a call: the default of the configuration and the one
\* of the tests
Passwords == {"yourPKCS12Password", "password"}

\* the process is idle between calls; temp is the directory os.MkdirTemp
\* made for its last call, none when it made none
Pkcs12Init ==
    /\ AfterGeneration({NewCertificateConfig(DomainExample, 90, 2048)})
    /\ files \in {<<>>,
                  [p \in {FilePaths(NewFileWriter(DomainExample))
                              .GetLeafCertPath} |->
                      File(TestDERData, PermDefault)]}
    /\ tool \in Tools
    /\ proc = [pc |-> "idle", showVersion |-> FALSE, exit |-> 0 - 1,
               stderr |-> <<>>, written |-> <<>>, temp |-> <<>>]

\* pkcs12Gen.GeneratePKCS12(leafCert, leafKey, caCert, password)
CallGeneratePKCS12 ==
    /\ ~aborted
    /\ proc.pc = "idle"
    /\ \E leafCert \in {NIL, issued[2].cert}, leafKey \in {NIL, keys[2]},
          caCert \in {NIL, issued[1].cert}, password \in Passwords :
          \E g \in {StartExport(files, tool, leafCert, leafKey)} :
              /\ files' = g.fs
              \* without a return the call waits in cmd.Run
              /\ proc' = [proc EXCEPT
                              !.pc = IF g.returns \/ g.panic THEN "idle"
                                     ELSE "cmd.Run",
                              !.temp = g.tempDir]
              /\ last' = Call("GeneratePKCS12",
                              <<leafCert, leafKey, caCert, password>>,
                              NIL, NIL, NIL, g.pfx, g.err)
              /\ aborted' = g.panic
              /\ UNCHANGED <<config, now, keys, issued, randLog, tool>>

\* the command exits, cmd.Run returns and the call runs to its return
CmdRunReturns ==
    /\ ~aborted
    /\ proc.pc = "cmd.Run"
    /\ tool.exit >= 0
    /\ \E g \in {AwaitExport(files, tool, proc.temp, last.args[4])} :
          /\ files' = g.fs
          /\ proc' = [proc EXCEPT !.pc = "idle"]
          /\ last' = [last EXCEPT !.out = g.pfx, !.err = g.err]
          /\ UNCHANGED <<config, now, keys, issued, randLog, tool, aborted>>

Pkcs12Next == CallGeneratePKCS12 \/ CmdRunReturns

Pkcs12Spec == Pkcs12Init /\ [][Pkcs12Next]_vars

\* the steps of CmdRunReturns as the process shows them: a step of
\* Pkcs12Spec is one of CmdRunReturns exactly when it is one of these, and
\* one is possible exactly when the other is
CmdRunReturning ==
    /\ ~aborted
    /\ proc.pc = "cmd.Run"
    /\ tool.exit >= 0
    /\ proc' = [proc EXCEPT !.pc = "idle"]

\* a command that exits makes cmd.Run return, and the call goes on
Pkcs12FairSpec == Pkcs12Spec /\ WF_proc(CmdRunReturning)

\* ------------------------------------------------------------------------
\* Goroutines that call the methods of one Generator at the same time. A
\* call goes through its statements one at a time, and the statements of
\* the calls interleave; proc holds the goroutines and the configuration
\* the Generator was made with
\* ------------------------------------------------------------------------
Threads == {1, 2}

GeneratorMethods ==
    {"GenerateRootCA", "GenerateLeafCertificate",
     "GenerateCertificateRequest"}

\* a goroutine: the method it calls and the arguments, the statement it is
\* at, its local variables key, opts and serialNumber, which draw of
\* rand.Int the serial number was, and what the call returned
Goroutine(op, pc, args, key, opts, serialNumber, draw, result) ==
    [op |-> op, pc |-> pc, args |-> args, key |-> key, opts |-> opts,
     serialNumber |-> serialNumber, draw |-> draw, result |-> result]

ConcurrentInit ==
    /\ AfterGeneration({NewCertificateConfig(DomainExample, 90, 2048)})
    /\ files = <<>>
    /\ tool = [installed |-> TRUE, exit |-> 0, out |-> TRUE]
    /\ proc = [pc |-> "goroutines", showVersion |-> FALSE, exit |-> 0 - 1,
               stderr |-> <<>>, written |-> <<>>, config |-> config,
               threads |-> [i \in Threads |->
                               Goroutine("none", "idle", <<>>, NIL, NIL,
                                         BigZero, 0, NIL)]]

\* the goroutine i after a statement
Resume(i, th) == [proc EXCEPT !.threads[i] = th]

\* goroutine i calls a method: the root CA and the leaf key of the
\* generator are the arguments of the methods that take some
GoCall(i) ==
    /\ proc.threads[i].pc = "idle"
    /\ \E op \in GeneratorMethods :
          proc' = Resume(i,
              [proc.threads[i] EXCEPT
                  !.op = op,
                  !.args = CASE op = "GenerateRootCA" -> <<>>
                             [] op = "GenerateLeafCertificate" ->
                                    <<issued[1].cert, keys[1]>>
                             [] op = "GenerateCertificateRequest" ->
                                    <<keys[2]>>,
                  !.key = IF op = "GenerateCertificateRequest"
                          THEN keys[2] ELSE NIL,
                  !.pc = IF op = "GenerateCertificateRequest"
                         THEN "GetOptions" ELSE "GeneratePrivateKey"])
    /\ UNCHANGED <<config, now, keys, issued, randLog, last, aborted,
                   files, tool>>

\* key, err := g.GeneratePrivateKey(), and the return of its error
StepGeneratePrivateKey(i) ==
    /\ proc.threads[i].pc = "GeneratePrivateKey"
    /\ \E elapsed \in KeyGenDurations :
       \E k \in {GeneratePrivateKey(config, Len(keys) + 1)} :
          IF k.err # ""
          THEN /\ proc' = Resume(i,
                      [proc.threads[i] EXCEPT
                          !.pc = "returned",
                          !.result = Outcome(NIL, NIL, NIL, k.err, FALSE,
                                             NIL, FALSE)])
               /\ UNCHANGED <<keys, now>>
          ELSE /\ proc' = Resume(i, [proc.threads[i] EXCEPT
                                        !.pc = "GetOptions", !.key = k.key])
               /\ keys' = Append(keys, k.key)
               /\ now' = TimeAdd(now, elapsed)
    /\ UNCHANGED <<config, issued, randLog, last, aborted, files, tool>>

\* opts := g.config.GetRootCAOptions() or g.config.GetLeafCertOptions()
StepGetOptions(i) ==
    /\ proc.threads[i].pc = "GetOptions"
    /\ proc' = Resume(i,
           [proc.threads[i] EXCEPT
               !.opts = IF proc.threads[i].op = "GenerateRootCA"
                        THEN GetRootCAOptions(config, now)
                        ELSE GetLeafCertOptions(config, now),
               !.pc = IF proc.threads[i].op = "GenerateCertificateRequest"
                      THEN "Create" ELSE "rand.Int"])
    /\ UNCHANGED <<config, now, keys, issued, randLog, last, aborted,
                   files, tool>>

\* serialNumber, err := rand.Int(rand.Reader, ...)
StepRandInt(i) ==
    /\ proc.threads[i].pc = "rand.Int"
    /\ \E serialNumber \in
              RandInt(IF proc.threads[i].op = "GenerateRootCA"
                      THEN RootSerialMax ELSE LeafSerialMax) :
          /\ proc' = Resume(i, [proc.threads[i] EXCEPT
                                   !.serialNumber = serialNumber,
                                   !.draw = Len(randLog) + 1,
                                   !.pc = "Create"])
          /\ randLog' = Append(randLog, serialNumber)
    /\ UNCHANGED <<config, now, keys, issued, last, aborted, files, tool>>

\* mutant: the key is kept in a field of the Generator, which holds the key
\* of the call that generated one last
KeyOfGenerator(own, latest) == latest

\* the key a call uses is its local variable
KeyOfCall(own, latest) == own

\* what the rest of a call returns: the template, x509.CreateCertificate
\* or x509.CreateCertificateRequest, the parse
CreateOf(th, key) ==
    CASE th.op = "GenerateRootCA" ->
           Let(RootCATemplate(th.opts, th.serialNumber), LAMBDA template :
           Let(CreateCertificate(template, template, RootCASubjectKey(key),
                                 RootCASigningKey(key)), LAMBDA created :
               IF created.err # ""
               THEN Outcome(NIL, NIL, NIL,
                            "failed to create root CA certificate",
                            FALSE, key, TRUE)
               ELSE Outcome(ParseCertificate(created.der), key, NIL, "",
                            FALSE, key, TRUE)))
      [] th.op = "GenerateLeafCertificate" ->
           Let(CreateCertificate(LeafTemplate(th.opts, th.serialNumber),
                                 th.args[1],
                                 LeafSubjectKey(key, th.args[2]),
                                 LeafSigningKey(key, th.args[2])),
               LAMBDA created :
               IF created.err # ""
               THEN Outcome(NIL, NIL, NIL,
                            "failed to create leaf certificate",
                            FALSE, key, TRUE)
               ELSE Outcome(ParseCertificate(created.der), key, NIL, "",
                            FALSE, key, TRUE))
      [] th.op = "GenerateCertificateRequest" ->
           Let(CreateCertificateRequest(
                   [Subject  |-> TemplateSubject(th.opts),
                    DNSNames |-> th.opts.DNSNames], th.args[1]),
               LAMBDA created :
               IF created.err # ""
               THEN Outcome(NIL, NIL, NIL,
                            "failed to create certificate request",
                            FALSE, NIL, FALSE)
               ELSE Outcome(NIL, NIL, created.csr, "", FALSE, NIL, FALSE))

\* the template, the creation, the parse and the return
StepCreate(i) ==
    /\ proc.threads[i].pc = "Create"
    /\ \E r \in {CreateOf(proc.threads[i],
                          KeyOfCall(proc.threads[i].key,
                                    keys[Len(keys)]))} :
          /\ proc' = Resume(i, [proc.threads[i] EXCEPT
                                   !.pc = "returned", !.result = r])
          /\ issued' = IF r.cert # NIL
                       THEN Append(issued,
                                [kind |-> IF proc.threads[i].op
                                                 = "GenerateRootCA"
                                          THEN "root" ELSE "leaf",
                                 cert |-> r.cert, key |-> r.key,
                                 args |-> proc.threads[i].args,
                                 draw |-> proc.threads[i].draw])
                       ELSE issued
          /\ last' = Call(proc.threads[i].op, proc.threads[i].args,
                          r.cert, r.key, r.csr, NIL, r.err)
    /\ UNCHANGED <<config, now, keys, randLog, aborted, files, tool>>

ConcurrentNext ==
    \E i \in Threads :
        \/ GoCall(i)
        \/ StepGeneratePrivateKey(i)
        \/ StepGetOptions(i)
        \/ StepRandInt(i)
        \/ StepCreate(i)

ConcurrentSpec == ConcurrentInit /\ [][ConcurrentNext]_vars

\* ------------------------------------------------------------------------
\* Properties
\* ------------------------------------------------------------------------
Roots == {i \in 1..Len(issued) : issued[i].kind = "root"}
Leaves == {i \in 1..Len(issued) : issued[i].kind = "leaf"}

\* the leaves issued from a certificate and key that one GenerateRootCA
\* call returned together
LeavesOfRootCA ==
    {i \in Leaves : \E j \in Roots : /\ issued[j].cert = issued[i].args[1]
                                     /\ issued[j].key = issued[i].args[2]}

\* C1: GeneratePrivateKey succeeds exactly when the configuration is present
\* and KeySize >= 1024, and the key then has exactly KeySize bits; otherwise
\* it returns an error and no key, and GenerateRootCA and
\* GenerateLeafCertificate return that error with no certificate and no key.
C1_KeySizeContract ==
    /\ last.op = "GeneratePrivateKey" =>
          IF config # NIL /\ config.KeySize >= 1024
          THEN /\ last.err = ""
               /\ last.key # NIL
               /\ last.key.bits = config.KeySize
          ELSE last.err # "" /\ last.key = NIL
    /\ ( /\ last.op \in {"GenerateRootCA", "GenerateLeafCertificate"}
         /\ ~(config # NIL /\ config.KeySize >= 1024) ) =>
          /\ last.err = IF config = NIL THEN "configuration is nil"
                        ELSE "key size must be at least 1024 bits"
          /\ last.cert = NIL
          /\ last.key = NIL

C1_Witness ==
    /\ last.op = "GeneratePrivateKey"
    /\ last.err = ""
    /\ config.KeySize = 1024
    /\ last.key.bits = 1024

\* C2: every root CA certificate has IsCA, key usage exactly
\* {certificate-signing, CRL-signing}, the configured domain as common name
\* and as its only DNS name (also when the domain is empty), and
\* NotAfter = NotBefore + 1024 days whatever ValidityDays is.
C2_RootCAShape ==
    \A i \in Roots :
        LET c == issued[i].cert
        IN  /\ c.IsCA
            /\ c.KeyUsage = {"certSign", "crlSign"}
            /\ c.Subject.CommonName = config.Domain
            /\ c.DNSNames = <<config.Domain>>
            /\ c.NotAfter = [day  |-> c.NotBefore.day + 1024,
                             sec  |-> c.NotBefore.sec,
                             nsec |-> c.NotBefore.nsec]

C2_Witness ==
    \E i \in Roots :
        /\ config.Domain = <<>>
        /\ config.ValidityDays # 1024
        /\ issued[i].cert.DNSNames = <<<<>>>>

\* C3: the root CA certificate is self-signed: issuer = subject, it carries
\* the public half of the key returned with it, it is signed with that key,
\* and its signature verifies against itself.
C3_RootCASelfSigned ==
    \A i \in Roots :
        LET c == issued[i].cert
            k == issued[i].key
        IN  /\ c.Issuer = c.Subject
            /\ c.RawIssuer = c.RawSubject
            /\ c.PublicKey = [pub |-> k.id, bits |-> k.bits]
            /\ c.Signature.signer = k.id
            /\ CheckSignatureFrom(c, c) = ""

C3_Witness ==
    \E i \in Roots : issued[i].cert.Signature.signer = issued[i].key.id

\* C4: a leaf issued from a root CA certificate and its key is signed with
\* the CA's key, not its own, verifies against the CA certificate, and has
\* the CA's subject as issuer.
C4_LeafSignedByCA ==
    \A i \in LeavesOfRootCA :
        LET c      == issued[i].cert
            caCert == issued[i].args[1]
            caKey  == issued[i].args[2]
        IN  /\ c.Signature.signer = caKey.id
            /\ c.Signature.signer # issued[i].key.id
            /\ CheckSignatureFrom(c, caCert) = ""
            /\ c.Issuer = caCert.Subject

C4_Witness ==
    \E i \in LeavesOfRootCA : issued[i].cert.PublicKey.pub = issued[i].key.id

\* C5: every leaf certificate has IsCA false, key usage exactly
\* {digital-signature, key-encipherment}, extended key usage exactly
\* {server-auth, client-auth}, and the configured domain as common name and
\* only DNS name.
C5_LeafShape ==
    \A i \in Leaves :
        LET c == issued[i].cert
        IN  /\ ~c.IsCA
            /\ c.KeyUsage = {"digitalSignature", "keyEncipherment"}
            /\ Len(c.ExtKeyUsage) = 2
            /\ {c.ExtKeyUsage[n] : n \in 1..2} = {"serverAuth", "clientAuth"}
            /\ c.Subject.CommonName = config.Domain
            /\ c.DNSNames = <<config.Domain>>

C5_Witness ==
    \E i \in Leaves : ~issued[i].cert.IsCA /\ issued[i].cert.ExtKeyUsage # <<>>

\* days * 24 h in nanoseconds, as a natural number
ExactNanos(days) == BigMul(MulSmall(FromInt(days), 24), Hour)

\* 2^63, the first natural an int64 cannot hold
TwoTo63 == Zeros(7) \o <<128>>

\* NotAfter - NotBefore is within a minute of the given number of days
SpanWithinMinute(c, days) ==
    LET dd == (c.NotAfter.day - c.NotBefore.day) - days
    IN  /\ dd \in {0 - 1, 0, 1}
        /\ c.NotAfter.nsec = c.NotBefore.nsec
        /\ LET diff == dd * 86400 + (c.NotAfter.sec - c.NotBefore.sec)
           IN  diff >= 0 - 60 /\ diff <= 60

\* C6: for ValidityDays in 1..36500 the leaf's validity span is
\* ValidityDays x 24 h within a minute, and ValidityDays * 24h as an int64
\* count of nanoseconds does not overflow.
C6_LeafValidity ==
    (config # NIL /\ config.ValidityDays \in 1..36500) =>
        /\ BigLess(ExactNanos(config.ValidityDays), TwoTo63)
        /\ LeafValidFor(config) = ExactNanos(config.ValidityDays)
        /\ \A i \in Leaves :
              SpanWithinMinute(issued[i].cert, config.ValidityDays)

C6_Witness ==
    \E i \in Leaves :
        /\ config.ValidityDays = 36500
        /\ issued[i].cert.NotAfter.day = issued[i].cert.NotBefore.day + 36500

\* 2^128
TwoTo128 == Zeros(16) \o <<1>>

\* C7: every certificate's serial number is the value its own call drew
\* from the random source, no two certificates come from the same draw, and
\* 0 <= serial < 2^128.
C7_SerialDrawnPerCall ==
    /\ \A i \in 1..Len(issued) :
          /\ issued[i].draw \in 1..Len(randLog)
          /\ issued[i].cert.SerialNumber = randLog[issued[i].draw]
          /\ BigLess(issued[i].cert.SerialNumber, TwoTo128)
    /\ \A i, j \in 1..Len(issued) : i < j => issued[i].draw < issued[j].draw

C7_Witness ==
    /\ Len(issued) = 2
    /\ issued[1].cert.SerialNumber = [n \in 1..16 |-> 255]
    /\ issued[2].kind = "leaf"

C9_NilConfigReturnsErrors ==
    config = NIL =>
        /\ ~aborted
        /\ last.op \in {"GeneratePrivateKey", "GenerateRootCA",
                        "GenerateLeafCertificate",
                        "GenerateCertificateRequest"} =>
              /\ last.err # ""
              /\ last.cert = NIL
              /\ last.key = NIL
              /\ last.csr = NIL

\* C10: EncodeCertificateToPEM, EncodePrivateKeyToPEM and
\* ConvertCertificateToBase64DER return an error, without aborting the
\* process, when the certificate or key is nil.
C10_NilArtifactReturnsError ==
    ( /\ last.op \in {"EncodeCertificateToPEM", "EncodePrivateKeyToPEM",
                      "ConvertCertificateToBase64DER"}
      /\ last.args[1] = NIL ) =>
        /\ ~aborted
        /\ last.err # ""
\* C11: decoding the PEM encoding of a certificate gives a certificate with
\* the same raw octets, decoding the PEM encoding of a key gives the same
\* key, and encoding what was decoded gives the PEM octets again.
C11_PEMRoundTrip ==
    /\ \A c \in IssuedCerts :
          ( /\ last.op = "DecodePEMCertificate"
            /\ last.args[1] = EncodeCertificateToPEM(c).out ) =>
              /\ last.err = ""
              /\ RawBytes(last.cert) = RawBytes(c)
              /\ EncodeCertificateToPEM(last.cert).out = last.args[1]
    /\ \A k \in KnownKeys :
          ( /\ last.op = "DecodePEMPrivateKey"
            /\ last.args[1] = EncodePrivateKeyToPEM(k).out ) =>
              /\ last.err = ""
              /\ last.key = k
              /\ EncodePrivateKeyToPEM(last.key).out = last.args[1]

\* a leaf certificate with a serial number of 128 bits came back from its
\* PEM encoding
C11_Witness ==
    /\ last.op = "DecodePEMCertificate"
    /\ last.err = ""
    /\ \E i \in Leaves :
          /\ last.args[1] = EncodeCertificateToPEM(issued[i].cert).out
          /\ last.cert = issued[i].cert
          /\ Len(last.cert.SerialNumber) = 16

\* C12: the output of EncodeCertificateToPEM is one envelope labelled
\* "CERTIFICATE" whose payload is the raw octets of the certificate, so that
\* ConvertPEMToDER of it returns those octets; the output of
\* EncodePrivateKeyToPEM is one envelope labelled "PRIVATE KEY" whose
\* payload is the PKCS#8 serialization of the key.
C12_EnvelopeShape ==
    /\ ( /\ last.op = "EncodeCertificateToPEM"
         /\ last.args[1] # NIL ) =>
           /\ last.err = ""
           /\ PemDecode(last.out)
                 = [block |-> [Type  |-> LabelCertificate,
                               Bytes |-> RawBytes(last.args[1])],
                    rest  |-> <<>>]
           /\ HasPrefix(last.out, Tail(PemStart))
    /\ \A c \in IssuedCerts :
          ( /\ last.op = "ConvertPEMToDER"
            /\ last.args[1] = EncodeCertificateToPEM(c).out ) =>
              /\ last.err = ""
              /\ last.out = RawBytes(c)
    /\ ( /\ last.op = "EncodePrivateKeyToPEM"
         /\ last.args[1] # NIL ) =>
           /\ last.err = ""
           /\ PemDecode(last.out).rest = <<>>
           /\ HasPrefix(last.out, Tail(PemStart))
           /\ PemDecode(last.out).block.Type = LabelPrivateKey
           /\ ParsePKCS8PrivateKey(PemDecode(last.out).block.Bytes)
                 = [key |-> last.args[1], type |-> "*rsa.PrivateKey",
                    err |-> ""]

\* a key was encoded
C12_Witness ==
    /\ last.op = "EncodePrivateKeyToPEM"
    /\ last.args[1] \in KnownKeys
    /\ PemDecode(last.out).block.Type = LabelPrivateKey

\* data in which no begin line or no end line occurs
NoEnvelope(data) ==
    \/ Index(data, Tail(PemStart)) = 0
    \/ Index(data, Tail(PemEnd)) = 0

\* C13: on data that holds no PEM envelope, ConvertPEMToDER,
\* DecodePEMCertificate and DecodePEMPrivateKey return an error and no
\* result.
C13_NoEnvelopeFails ==
    ( /\ last.op \in {"ConvertPEMToDER", "DecodePEMCertificate",
                      "DecodePEMPrivateKey"}
      /\ NoEnvelope(last.args[1]) ) =>
        /\ last.err # ""
        /\ last.cert = NIL
        /\ last.key = NIL
        /\ last.out = <<>>

\* ConvertPEMToDER was given "not a valid PEM"
C13_Witness ==
    /\ last.op = "ConvertPEMToDER"
    /\ last.args[1] = NotAValidPEM
    /\ last.err = "failed to parse PEM block"

\* C14: DecodePEMCertificate fails on a well-formed envelope whose label is
\* not "CERTIFICATE", whatever the payload.
C14_WrongLabelFails ==
    ( /\ last.op = "DecodePEMCertificate"
      /\ PemDecode(last.args[1]).block # NIL
      /\ PemDecode(last.args[1]).block.Type # LabelCertificate ) =>
        /\ last.err # ""
        /\ last.cert = NIL

\* C15: DecodePEMPrivateKey returns a key only when the payload parses as
\* PKCS#8 and holds an RSA key; when the payload does not parse, holds a
\* key of another algorithm, or the envelope is a certificate envelope, it
\* returns an error and no key.
C15_PrivateKeyOnlyFromKeyEnvelope ==
    last.op = "DecodePEMPrivateKey" =>
        LET block  == PemDecode(last.args[1]).block
            parsed == ParsePKCS8PrivateKey(block.Bytes)
        IN  /\ last.key # NIL =>
                 /\ block # NIL
                 /\ parsed.err = ""
                 /\ parsed.type = "*rsa.PrivateKey"
            /\ ( /\ block # NIL
                 /\ \/ parsed.err # ""
                    \/ parsed.type # "*rsa.PrivateKey"
                    \/ block.Type = LabelCertificate ) =>
                   /\ last.err # ""
                   /\ last.key = NIL

\* C16: ConvertCertificateToBase64DER of a certificate is EncodeDERToBase64
\* of its raw octets and of what ConvertPEMToDER extracts from its PEM
\* encoding; EncodeDERToBase64 does not fail, and decoding its output with
\* the standard alphabet returns its input.
C16_Base64OfDER ==
    /\ ( /\ last.op = "ConvertCertificateToBase64DER"
         /\ last.args[1] # NIL ) =>
           /\ last.err = ""
           /\ last.out = EncodeDERToBase64(RawBytes(last.args[1]))
           /\ last.out = EncodeDERToBase64(
                  ConvertPEMToDER(
                      EncodeCertificateToPEM(last.args[1]).out).out)
    /\ last.op \in {"EncodeDERToBase64", "ConvertCertificateToBase64DER"} =>
           /\ last.err = ""
           /\ (last.op = "EncodeDERToBase64" \/ last.args[1] # NIL) =>
                 StdDecodeString(last.out)
                    = [ok    |-> TRUE,
                       bytes |-> IF last.op = "EncodeDERToBase64"
                                 THEN last.args[1]
                                 ELSE RawBytes(last.args[1])]

\* a root CA certificate was converted, and its text uses a character that
\* the URL-safe alphabet replaces
C16_Witness ==
    /\ last.op = "ConvertCertificateToBase64DER"
    /\ \E i \in Roots : last.args[1] = issued[i].cert
    /\ \/ Index(last.out, <<Ascii.Plus>>) # 0
       \/ Index(last.out, <<Ascii.Slash>>) # 0

InvalidArguments ==
    \/ config.Domain = <<>>
    \/ config.ValidityDays < 1
    \/ config.ValidityDays > 36500

\* nothing was generated and nothing was written by the step
NothingGeneratedOrWritten ==
    /\ keys' = <<>>
    /\ issued' = <<>>
    /\ randLog' = <<>>
    /\ files' = files
    /\ proc'.written = <<>>

RunCompleted == proc.pc = "exited" /\ proc.exit = 0 /\ ~proc.showVersion

\* the part of the domain before its first '.', the whole domain when it
\* has none
FirstLabel ==
    LET dots == {i \in 1..Len(config.Domain) : config.Domain[i] = 46}
    IN  IF dots = {} THEN config.Domain
        ELSE SubSeq(config.Domain, 1,
                    (CHOOSE i \in dots : \A j \in dots : i <= j) - 1)

\* the seven names under the first label
SevenPaths == FilePaths([subdomain |-> FirstLabel])

\* C19: a run that completes successfully for a domain has written exactly
\* seven files, named after the first label of the domain, and each file
\* holds the encoding of the key or certificate generated in that same run.
C19_SevenFilesOfTheRun ==
    RunCompleted =>
        /\ Len(keys) = 2 /\ Len(issued) = 2
        /\ RunRoot.kind = "root" /\ RunRoot.key = keys[1]
        /\ RunLeaf.kind = "leaf" /\ RunLeaf.key = keys[2]
        /\ Len(proc.written) = 7
        /\ {proc.written[i] : i \in 1..7}
              = {SevenPaths.GetRootKeyPath, SevenPaths.GetRootCertPath,
                 SevenPaths.GetLeafKeyPath, SevenPaths.GetLeafCertPath,
                 SevenPaths.GetPKCS12Path, SevenPaths.GetRootBase64Path,
                 SevenPaths.GetLeafBase64Path}
        /\ DOMAIN files = {proc.written[i] : i \in 1..7}
        /\ DecodePEMPrivateKey(files[SevenPaths.GetRootKeyPath].data)
              = [key |-> RunRoot.key, err |-> ""]
        /\ DecodePEMCertificate(files[SevenPaths.GetRootCertPath].data)
              = [cert |-> RunRoot.cert, err |-> ""]
        /\ DecodePEMPrivateKey(files[SevenPaths.GetLeafKeyPath].data)
              = [key |-> RunLeaf.key, err |-> ""]
        /\ DecodePEMCertificate(files[SevenPaths.GetLeafCertPath].data)
              = [cert |-> RunLeaf.cert, err |-> ""]
        /\ files[SevenPaths.GetPKCS12Path].data
              = Pkcs12Bundle(RawBytes(RunLeaf.cert),
                             MarshalPKCS8PrivateKey(RunLeaf.key),
                             StringBytes[config.PKCS12Password])
        /\ StdDecodeString(files[SevenPaths.GetRootBase64Path].data)
              = [ok |-> TRUE, bytes |-> RawBytes(RunRoot.cert)]
        /\ StdDecodeString(files[SevenPaths.GetLeafBase64Path].data)
              = [ok |-> TRUE, bytes |-> RawBytes(RunLeaf.cert)]

\* a run for a.c has completed over the files an earlier run left under
\* the same first label
C19_Witness ==
    /\ RunCompleted
    /\ config.Domain = DomainSibling
    /\ files[<<97, 95, 114, 111, 111, 116, 67, 65, 46, 112, 101, 109>>].data
          # TestDERData
    /\ files[<<97, 95, 114, 111, 111, 116, 67, 65, 46, 107, 101, 121>>].perm
          = PermDefault
    /\ RunLeaf.cert.DNSNames = <<DomainSibling>>

\* C20: after any successful WriteFile(path, data), the file at path has
\* mode 0600 if it is a key file and mode 0644 otherwise, also when a file
\* already existed at path before the write.
C20_ModeOfWrittenFiles ==
    \A i \in 1..Len(proc.written) :
        files[proc.written[i]].perm
            = IF HasSuffix(proc.written[i], <<46, 107, 101, 121>>)
              THEN 384 ELSE 420

\* ------------------------------------------------------------------------
\* pkg/pkcs12
\* ------------------------------------------------------------------------
\* a call of GeneratePKCS12 has returned
Pkcs12Returned == last.op = "GeneratePKCS12" /\ proc.pc = "idle" /\ ~aborted

\* "/tmp/": os.TempDir()
TempRoot == <<47, 116, 109, 112, 47>>

\* C21: whenever GeneratePKCS12 returns, with success or with an error, the
\* temporary directory it created and every file in it no longer exist;
\* when the external tool is not found, it created no temporary directory.
C21_TempDirRemoved ==
    Pkcs12Returned =>
        /\ \A p \in DOMAIN files :
              /\ ~HasPrefix(p, TempRoot)
              /\ p # proc.temp
              /\ ~HasPrefix(p, proc.temp \o <<47>>)
        /\ ~tool.installed => proc.temp = <<>>

\* the command exited with status 1 after the call had made a temporary
\* directory and written the leaf files into it, and the call returned
C21_Witness ==
    /\ Pkcs12Returned
    /\ tool.installed /\ tool.exit = 1
    /\ last.args[1] # NIL /\ last.args[2] # NIL
    /\ last.err = "failed to generate PKCS#12"
    /\ HasPrefix(proc.temp, TempRoot)
    /\ DOMAIN files # {}

\* C22: GeneratePKCS12 returns an error and no bundle when the external
\* tool is missing, when it exits with a non-zero status, or when the leaf
\* certificate or the leaf key is nil; it returns a bundle only when the
\* tool ran and exited with status 0.
C22_ErrorOrBundle ==
    (last.op = "GeneratePKCS12" /\ proc.pc = "idle") =>
        /\ ~aborted
        /\ ( \/ ~tool.installed
             \/ tool.exit > 0
             \/ last.args[1] = NIL
             \/ last.args[2] = NIL ) =>
               last.err # "" /\ last.out = <<>>
        /\ last.out # <<>> =>
               tool.installed /\ tool.exit = 0 /\ last.err = ""

\* a call with a nil leaf certificate returned an error on a machine whose
\* openssl works
C22_Witness ==
    /\ Pkcs12Returned
    /\ tool = [installed |-> TRUE, exit |-> 0, out |-> TRUE]
    /\ last.args[1] = NIL
    /\ last.args[2] # NIL
    /\ last.err = "failed to encode leaf cert"
    /\ last.out = <<>>

\* C23: when GeneratePKCS12 is given an issuer certificate, the bundle it
\* returns holds that certificate next to the leaf certificate and the key;
\* without an issuer the bundle is still produced from the leaf
\* certificate and the key.
C23_BundleHoldsIssuer ==
    ( /\ Pkcs12Returned
      /\ tool = [installed |-> TRUE, exit |-> 0, out |-> TRUE]
      /\ last.args[1] # NIL
      /\ last.args[2] # NIL ) =>
        /\ last.err = ""
        /\ Index(last.out, RawBytes(last.args[1])) # 0
        /\ Index(last.out, MarshalPKCS8PrivateKey(last.args[2])) # 0
        /\ last.args[3] # NIL =>
               Index(last.out, RawBytes(last.args[3])) # 0

\* C25: every call of GeneratePKCS12 eventually returns, also when the
\* external tool it started never exits.
C25_EveryCallReturns == (proc.pc = "cmd.Run") ~> (proc.pc = "idle")

\* ------------------------------------------------------------------------
\* cmd/certgen: run
\* ------------------------------------------------------------------------
\* a step of run whose operation returned an error
FailingStep ==
    /\ proc.pc \notin {"main", "exited", "cmd.Run"}
    /\ (last'.err # "" \/ proc'.stderr # proc.stderr)

\* C24: run stops at its first failing step and rolls nothing back: the
\* step that fails ends the process with the error on standard error and
\* status 1, the files written by the earlier steps stay as they were, and
\* no step follows: nothing more is generated or written.
C24_StopsAtFirstFailure ==
    [][ /\ FailingStep =>
            /\ proc'.pc = "exited"
            /\ proc'.exit = 1
            /\ Len(proc'.stderr) > Len(proc.stderr)
            /\ proc'.written = proc.written
            /\ \A i \in 1..Len(proc.written) :
                  /\ proc.written[i] \in DOMAIN files'
                  /\ files'[proc.written[i]] = files[proc.written[i]]
            /\ DOMAIN files' = DOMAIN files
            /\ issued' = issued
        /\ proc.pc = "exited" =>
            /\ files' = files
            /\ keys' = keys
            /\ issued' = issued
            /\ proc' = proc ]_vars

\* the bundle could not be generated after the root CA and the leaf were
\* generated and saved: the process has ended with status 1 and the four
\* files written before are on disk
C24_Witness ==
    /\ proc.pc = "exited"
    /\ proc.exit = 1
    /\ tool.installed /\ tool.exit = 1
    /\ Len(issued) = 2
    /\ proc.written = <<RunPaths.GetRootKeyPath, RunPaths.GetRootCertPath,
                        RunPaths.GetLeafKeyPath, RunPaths.GetLeafCertPath>>
    /\ DecodePEMCertificate(files[RunPaths.GetLeafCertPath].data).cert
           = RunLeaf.cert
    /\ DecodePEMCertificate(files[RunPaths.GetRootCertPath].data).cert
           = RunRoot.cert
    /\ proc.stderr[1] = "failed to generate PKCS#12"

\* ------------------------------------------------------------------------
\* Concurrent calls
\* ------------------------------------------------------------------------
\* what the call of a goroutine returns when no other call runs: the same
\* method on the configuration the Generator was made with, for the key
\* rsa.GenerateKey gave the call, the time it read and the serial number
\* it drew
AloneResult(th) ==
    CASE th.op = "GenerateRootCA" ->
           GenerateRootCA(proc.config, th.key.id, th.opts.ValidFrom,
                          th.serialNumber)
      [] th.op = "GenerateLeafCertificate" ->
           GenerateLeafCertificate(proc.config, th.key.id,
                                   th.opts.ValidFrom, th.serialNumber,
                                   th.args[1], th.args[2])
      [] th.op = "GenerateCertificateRequest" ->
           GenerateCertificateRequest(proc.config, th.opts.ValidFrom,
                                      th.args[1])

\* C26: however the statements of GenerateRootCA, GenerateLeafCertificate
\* and GenerateCertificateRequest calls of several goroutines on one
\* Generator interleave, each call returns what it returns when it runs
\* alone, and the configuration keeps the fields it had before the calls.
C26_CallsAreIndependent ==
    /\ config = proc.config
    /\ \A i \in Threads :
          proc.threads[i].pc = "returned" =>
              /\ proc.threads[i].result = AloneResult(proc.threads[i])
              /\ proc.threads[i].result.err = ""
              /\ proc.threads[i].result.cert # NIL =>
                    /\ proc.threads[i].result.cert.PublicKey
                           = PublicKeyOf(proc.threads[i].key)
                    /\ proc.threads[i].result.key = proc.threads[i].key

\* a GenerateRootCA call and a GenerateLeafCertificate call have both
\* returned, and the first generated its key before, and returned after,
\* the second generated its key and returned
C26_Witness ==
    /\ proc.threads[1].pc = "returned"
    /\ proc.threads[2].pc = "returned"
    /\ proc.threads[1].op = "GenerateRootCA"
    /\ proc.threads[2].op = "GenerateLeafCertificate"
    /\ proc.threads[1].key.id = 3
    /\ proc.threads[2].key.id = 4
    /\ Len(issued) = 4
    /\ issued[3].cert = proc.threads[2].result.cert
    /\ issued[4].cert = proc.threads[1].result.cert

\* ------------------------------------------------------------------------
\* Keys, usages, validity
\* ------------------------------------------------------------------------
\* C27: every GenerateRootCA and GenerateLeafCertificate call generates a
\* key pair of its own: the key it returns was returned by rsa.GenerateKey
\* once, the certificate carries the public half of that key, a leaf never
\* the public half of the CA key, and no two calls return or embed the same
\* key pair.
C27_FreshKeyPerCertificate ==
    /\ \A i \in 1..Len(issued) :
          /\ Cardinality({k \in 1..Len(keys) : keys[k] = issued[i].key}) = 1
          /\ issued[i].cert.PublicKey = PublicKeyOf(issued[i].key)
          /\ issued[i].kind = "leaf" =>
                /\ issued[i].key # issued[i].args[2]
                /\ issued[i].cert.PublicKey # PublicKeyOf(issued[i].args[2])
    /\ \A i, j \in 1..Len(issued) :
          i # j => /\ issued[i].key # issued[j].key
                   /\ issued[i].cert.PublicKey # issued[j].cert.PublicKey
                   /\ issued[i].cert.PublicKey # PublicKeyOf(issued[j].key)

\* a root CA and a leaf signed with the key of that root CA
C27_Witness ==
    /\ Len(issued) = 2
    /\ issued[1].kind = "root"
    /\ issued[2].kind = "leaf"
    /\ issued[2].args = <<issued[1].cert, issued[1].key>>
    /\ issued[2].cert.PublicKey = PublicKeyOf(keys[2])

\* the options record the configuration gives for an issued certificate
OptionsOf(entry) ==
    IF entry.kind = "root"
    THEN GetRootCAOptions(config, entry.cert.NotBefore)
    ELSE GetLeafCertOptions(config, entry.cert.NotBefore)

\* C28: the key usages and the extended key usages of a certificate the
\* generator signs, root CA or leaf, are the ones the options record of
\* GetRootCAOptions / GetLeafCertOptions lists as KeyUsage and ExtKeyUsage.
C28_UsagesOfTheOptions ==
    \A i \in 1..Len(issued) :
        /\ issued[i].cert.KeyUsage
               = {KeyUsageOfName(OptionsOf(issued[i]).KeyUsage[k]) :
                     k \in 1..Len(OptionsOf(issued[i]).KeyUsage)}
        /\ {issued[i].cert.ExtKeyUsage[k] :
               k \in 1..Len(issued[i].cert.ExtKeyUsage)}
               = {OptionsOf(issued[i]).ExtKeyUsage[k] :
                     k \in 1..Len(OptionsOf(issued[i]).ExtKeyUsage)}

\* the paths the file writer of a domain gives to the files of a run
OutputPaths(domain) ==
    LET paths == FilePaths(NewFileWriter(domain))
    IN  {paths.GetRootKeyPath, paths.GetRootCertPath, paths.GetLeafKeyPath,
         paths.GetLeafCertPath, paths.GetLeafCSRPath, paths.GetPKCS12Path,
         paths.GetRootBase64Path, paths.GetLeafBase64Path}

\* C29: the file writer gives two different domains disjoint sets of paths,
\* so a run for one domain writes no file of another domain and the files
\* of other domains in the directory stay as they were.
C29_DomainsHaveTheirOwnFiles ==
    \A domain \in (Domains \cup {DomainSibling}) \ {config.Domain} :
        /\ \A i \in 1..Len(proc.written) :
              proc.written[i] \notin OutputPaths(domain)
        /\ proc.pc = "exited" =>
              OutputPaths(domain) \cap OutputPaths(config.Domain) = {}

\* a is at or before b
NotLater(a, b) ==
    \/ a.day < b.day
    \/ a.day = b.day /\ a.sec < b.sec
    \/ a.day = b.day /\ a.sec = b.sec /\ a.nsec <= b.nsec

\* C30: in a run of the command (ValidityDays in 1..36500) the validity of
\* the leaf lies inside the validity of the root CA that signed it.
C30_LeafValidInsideRootCA ==
    (proc.pc # "main" /\ Len(issued) = 2) =>
        /\ NotLater(RunRoot.cert.NotBefore, RunLeaf.cert.NotBefore)
        /\ NotLater(RunLeaf.cert.NotAfter, RunRoot.cert.NotAfter)

====
